---- MODULE Spec2Model ----
(***************************************************************************)
(* The SVG path-data parser of scavenger (src/src/lib.rs) as a state       *)
(* machine.  One step of the machine is one iteration of the dispatch loop *)
(* of Parser::parse: the handler of one command letter with all the        *)
(* argument groups it reads, or the return of parse.                       *)
(*                                                                         *)
(* Numbers are f32 in the source.  The inputs of the model are small       *)
(* integers, on which f32 addition and subtraction are exact, so they are  *)
(* modelled by Int.                                                        *)
(***************************************************************************)
EXTENDS Integers, Sequences, FiniteSets, TLC

VARIABLES input, pos, px, py, cx, cy, sx, sy, bezier_steps, last_command,
          commands, result,
          path_commands, bb, dims, calls,
          arc_in, arc_out

\* the parser, its input and what parse returned
parser_vars == <<input, pos, px, py, cx, cy, sx, sy, bezier_steps,
                 last_command, commands, result>>

\* a Path (commands and bb), the last value estimate_dimensions returned
\* for its commands, and the calls made on it
path_vars == <<path_commands, bb, dims, calls>>

\* the arguments of a call of calculate_ellipse_parameters and what it
\* returned
arc_vars == <<arc_in, arc_out>>

vars == <<parser_vars, path_vars, arc_vars>>

(***************************************************************************)
(* Bounds of the model.                                                    *)
(***************************************************************************)
\* Complete argument groups that may follow one command letter.
MaxGroups == 2
\* Number literals take NumMod values (-1, 0, 3, ...).
NumMod == 3
\* A caller-chosen step count tried beside the default.
SmallSteps == 2

(***************************************************************************)
(* Cmd and Cmd::map.                                                       *)
(***************************************************************************)
Cmd == {"M", "L", "H", "V", "C", "S", "Q", "T", "A", "Z"}

\* Option<Cmd> of the field last_command
NoCmd == "None"

UpperLetters == Cmd
LowerLetters == {"m", "l", "h", "v", "c", "s", "q", "t", "a", "z"}

Upper(ch) ==
    CASE ch = "m" -> "M" [] ch = "l" -> "L" [] ch = "h" -> "H" [] ch = "v" -> "V"
      [] ch = "c" -> "C" [] ch = "s" -> "S" [] ch = "q" -> "Q" [] ch = "t" -> "T"
      [] ch = "a" -> "A" [] ch = "z" -> "Z" [] OTHER -> ch

\* Cmd::map: Some((family, relative)) for the 20 command letters, else None.
CmdMap(ch) ==
    IF ch \in UpperLetters THEN [some |-> TRUE, cmd |-> ch, relative |-> FALSE]
    ELSE IF ch \in LowerLetters
         THEN [some |-> TRUE, cmd |-> Upper(ch), relative |-> TRUE]
         ELSE [some |-> FALSE, cmd |-> NoCmd, relative |-> FALSE]

(***************************************************************************)
(* The lexer.  An input is the sequence of lexemes left once separators    *)
(* are skipped: single letters and number literals.                        *)
(***************************************************************************)
Letter(ch) == [lx |-> "letter", c |-> ch, n |-> 0]
NumberLit(n) == [lx |-> "number", c |-> "", n |-> n]

\* Token of one lexeme: Ok(Command), Ok(Number) or Err(()) when the callback
\* of the letter regex returns None.
Lex(lexeme) ==
    IF lexeme.lx = "number"
    THEN [kind |-> "Number", cmd |-> NoCmd, relative |-> FALSE, n |-> lexeme.n]
    ELSE IF CmdMap(lexeme.c).some
         THEN [kind |-> "Command", cmd |-> CmdMap(lexeme.c).cmd,
               relative |-> CmdMap(lexeme.c).relative, n |-> 0]
         ELSE [kind |-> "Error", cmd |-> NoCmd, relative |-> FALSE, n |-> 0]

\* self.lexer.peek() is a number, with p tokens already consumed
IsNumberAt(p) == p < Len(input) /\ Lex(input[p + 1]).kind = "Number"

(***************************************************************************)
(* Reading numbers.  A reader returns the number, whether it succeeded,    *)
(* and the count of tokens consumed so far.                                *)
(***************************************************************************)
\* number that takes a missing number for 0.0
number_Lenient(p) ==
    IF IsNumberAt(p)
    THEN [ok |-> TRUE, n |-> Lex(input[p + 1]).n, pos |-> p + 1]
    ELSE [ok |-> TRUE, n |-> 0, pos |-> IF p < Len(input) THEN p + 1 ELSE p]

\* Parser::number: lexer.next() consumes whatever token comes, if any.
number(p) ==
    IF IsNumberAt(p)
    THEN [ok |-> TRUE, n |-> Lex(input[p + 1]).n, pos |-> p + 1]
    ELSE [ok |-> FALSE, n |-> 0, pos |-> IF p < Len(input) THEN p + 1 ELSE p]

\* try_number that calls next() where the source peeks
try_number_Consumes(p) ==
    IF IsNumberAt(p)
    THEN [ok |-> TRUE, n |-> Lex(input[p + 1]).n, pos |-> p + 1]
    ELSE [ok |-> FALSE, n |-> 0, pos |-> IF p < Len(input) THEN p + 1 ELSE p]

\* Parser::try_number: only a peeked number is consumed.
try_number(p) ==
    IF IsNumberAt(p)
    THEN [ok |-> TRUE, n |-> Lex(input[p + 1]).n, pos |-> p + 1]
    ELSE [ok |-> FALSE, n |-> 0, pos |-> p]

\* k successive calls of number()?: all k numbers, or the failure of the
\* first call that meets no number (the calls after it are not made)
numbers(p, k) ==
    IF \A i \in 0..(k - 1) : number(p + i).ok
    THEN [ok |-> TRUE, ns |-> [i \in 1..k |-> number(p + i - 1).n],
          pos |-> p + k]
    ELSE LET j == CHOOSE i \in 0..(k - 1) :
                      /\ ~number(p + i).ok
                      /\ \A i2 \in 0..(i - 1) : number(p + i2).ok
         IN  [ok |-> FALSE, ns |-> <<>>, pos |-> number(p + j).pos]

\* delta that forgets the relative flag
delta_AlwaysAbsolute(st, relative) == <<0, 0>>

\* Parser::delta
delta(st, relative) == IF relative THEN <<st.px, st.py>> ELSE <<0, 0>>

\* return Err(Expected::Number) from a handler, p tokens consumed
Failed(st, p) == [st EXCEPT !.pos = p, !.failed = TRUE]

(***************************************************************************)
(* Command, the output type.                                               *)
(***************************************************************************)
MoveTo(x, y) == [type |-> "MoveTo", x |-> x, y |-> y]
LineTo(x, y) == [type |-> "LineTo", x |-> x, y |-> y]
CurveTo(x1, y1, x2, y2, x, y) ==
    [type |-> "CurveTo", x1 |-> x1, y1 |-> y1, x2 |-> x2, y2 |-> y2,
     x |-> x, y |-> y]
ClosePath == [type |-> "ClosePath"]
SmoothCurveTo(ccx, ccy, x2, y2, x, y) ==
    [type |-> "SmoothCurveTo", cx |-> ccx, cy |-> ccy, x2 |-> x2, y2 |-> y2,
     x |-> x, y |-> y]
QuadraticBezierCurveTo(x1, y1, x, y) ==
    [type |-> "QuadraticBezierCurveTo", x1 |-> x1, y1 |-> y1, x |-> x, y |-> y]
SmoothQuadraticBezierCurveTo(ccx, ccy, x, y) ==
    [type |-> "SmoothQuadraticBezierCurveTo", cx |-> ccx, cy |-> ccy,
     x |-> x, y |-> y]

(***************************************************************************)
(* The command handlers.  st is the parser (self) with the fields the      *)
(* handlers touch; each handler returns the parser it leaves.  The loop of *)
(* a handler is a recursion: next is the parser as one iteration leaves    *)
(* it, a value, on which the next iteration runs.                          *)
(***************************************************************************)
\* l that takes every pair for absolute
RECURSIVE l_IgnoresRelative(_, _)
l_IgnoresRelative(st, relative) ==
    LET x == try_number(st.pos)
        y == number(x.pos)
    IN  IF ~x.ok THEN [st EXCEPT !.pos = x.pos]
        ELSE IF ~y.ok THEN Failed(st, y.pos)
        ELSE CHOOSE out \in
            {l_IgnoresRelative(next, relative) :
                next \in {[st EXCEPT !.pos = y.pos, !.px = x.n, !.py = y.n,
                                     !.commands = Append(@, LineTo(x.n, y.n))]}} : TRUE

\* Parser::l
RECURSIVE l(_, _)
l(st, relative) ==
    LET x == try_number(st.pos)
        y == number(x.pos)
        npx == x.n + (IF relative THEN st.px ELSE 0)
        npy == y.n + (IF relative THEN st.py ELSE 0)
    IN  IF ~x.ok THEN [st EXCEPT !.pos = x.pos]
        ELSE IF ~y.ok THEN Failed(st, y.pos)
        ELSE CHOOSE out \in
            {l(next, relative) :
                next \in {[st EXCEPT !.pos = y.pos, !.px = npx, !.py = npy,
                                     !.commands = Append(@, LineTo(npx, npy))]}} : TRUE

\* m that takes the last pair it read for the start of the subpath
m_StartFollowsPairs(st, relative) ==
    LET xy == numbers(st.pos, 2)
        npx == xy.ns[1] + (IF relative THEN st.px ELSE 0)
        npy == xy.ns[2] + (IF relative THEN st.py ELSE 0)
        ret == CHOOSE out \in
            {l(next, relative) :
                next \in {[st EXCEPT !.pos = xy.pos, !.px = npx, !.py = npy,
                                    !.commands = Append(@, MoveTo(npx, npy))]}} : TRUE
    IN  IF ~xy.ok THEN Failed(st, xy.pos)
        ELSE [ret EXCEPT !.sx = ret.px, !.sy = ret.py]

\* m without the call of l that reads the pairs after the first
m_NoLineTo(st, relative) ==
    LET xy == numbers(st.pos, 2)
        npx == xy.ns[1] + (IF relative THEN st.px ELSE 0)
        npy == xy.ns[2] + (IF relative THEN st.py ELSE 0)
    IN  IF ~xy.ok THEN Failed(st, xy.pos)
        ELSE [st EXCEPT !.pos = xy.pos, !.px = npx, !.py = npy,
                        !.sx = npx, !.sy = npy,
                        !.commands = Append(@, MoveTo(npx, npy))]

\* Parser::m
m(st, relative) ==
    LET xy == numbers(st.pos, 2)
        npx == xy.ns[1] + (IF relative THEN st.px ELSE 0)
        npy == xy.ns[2] + (IF relative THEN st.py ELSE 0)
    IN  IF ~xy.ok THEN Failed(st, xy.pos)
        ELSE CHOOSE out \in
            {l(next, relative) :
                next \in {[st EXCEPT !.pos = xy.pos, !.px = npx, !.py = npy,
                                     !.sx = npx, !.sy = npy,
                                     !.commands = Append(@, MoveTo(npx, npy))]}} : TRUE

\* h that writes the new x for the y of its LineTo
RECURSIVE h_WrongAxis(_, _)
h_WrongAxis(st, relative) ==
    LET x == try_number(st.pos)
        npx == x.n + (IF relative THEN st.px ELSE 0)
    IN  IF ~x.ok THEN [st EXCEPT !.pos = x.pos]
        ELSE CHOOSE out \in
            {h_WrongAxis(next, relative) :
                next \in {[st EXCEPT !.pos = x.pos, !.px = npx,
                                     !.commands = Append(@, LineTo(npx, npx))]}} : TRUE

\* Parser::h
RECURSIVE h(_, _)
h(st, relative) ==
    LET x == try_number(st.pos)
        npx == x.n + (IF relative THEN st.px ELSE 0)
    IN  IF ~x.ok THEN [st EXCEPT !.pos = x.pos]
        ELSE CHOOSE out \in
            {h(next, relative) :
                next \in {[st EXCEPT !.pos = x.pos, !.px = npx,
                                     !.commands = Append(@, LineTo(npx, st.py))]}} : TRUE

\* v that pushes its LineTo and leaves the current point where it is
RECURSIVE v_LeavesPoint(_, _)
v_LeavesPoint(st, relative) ==
    LET y == try_number(st.pos)
        npy == y.n + (IF relative THEN st.py ELSE 0)
    IN  IF ~y.ok THEN [st EXCEPT !.pos = y.pos]
        ELSE CHOOSE out \in
            {v_LeavesPoint(next, relative) :
                next \in {[st EXCEPT !.pos = y.pos,
                                     !.commands = Append(@, LineTo(st.px, npy))]}} : TRUE

\* Parser::v
RECURSIVE v(_, _)
v(st, relative) ==
    LET y == try_number(st.pos)
        npy == y.n + (IF relative THEN st.py ELSE 0)
    IN  IF ~y.ok THEN [st EXCEPT !.pos = y.pos]
        ELSE CHOOSE out \in
            {v(next, relative) :
                next \in {[st EXCEPT !.pos = y.pos, !.py = npy,
                                     !.commands = Append(@, LineTo(st.px, npy))]}} : TRUE

\* Parser::c
RECURSIVE c(_, _)
c(st, relative) ==
    LET d == delta(st, relative)
        x1 == try_number(st.pos)
        r == numbers(x1.pos, 5)
        y1 == r.ns[1]
        x2 == r.ns[2]
        y2 == r.ns[3]
        x == r.ns[4]
        y == r.ns[5]
    IN  IF ~x1.ok THEN [st EXCEPT !.pos = x1.pos]
        ELSE IF ~r.ok THEN Failed(st, r.pos)
        ELSE CHOOSE out \in
            {c(next, relative) :
                next \in {[st EXCEPT !.pos = r.pos,
                                     !.px = x + d[1], !.py = y + d[2],
                                     !.cx = x2 + d[1], !.cy = y2 + d[2],
                                     !.commands =
                                         Append(@, CurveTo(x1.n + d[1], y1 + d[2],
                                                           x2 + d[1], y2 + d[2],
                                                           x + d[1], y + d[2]))]}} : TRUE

\* the gate of s that forgets a preceding S
ReflectsCubic_OnlyC(last) == last = "C"

\* the gate of Parser::s: if let Some(Cmd::C | Cmd::S) = self.last_command
ReflectsCubic(last) == last \in {"C", "S"}

\* Parser::s
RECURSIVE s(_, _)
s(st, relative) ==
    LET d == delta(st, relative)
        x2 == try_number(st.pos)
        r == numbers(x2.pos, 3)
        y2 == r.ns[1]
        x == r.ns[2]
        y == r.ns[3]
        reflect == ReflectsCubic(st.last_command)
        ncx == IF reflect THEN st.px + (st.px - st.cx) ELSE st.px
        ncy == IF reflect THEN st.py + (st.py - st.cy) ELSE st.py
    IN  IF ~x2.ok THEN [st EXCEPT !.pos = x2.pos]
        ELSE IF ~r.ok THEN Failed(st, r.pos)
        ELSE CHOOSE out \in
            {s(next, relative) :
                next \in {[st EXCEPT !.pos = r.pos,
                                     !.px = x + d[1], !.py = y + d[2],
                                     !.commands =
                                         Append(@, SmoothCurveTo(ncx, ncy,
                                                                 x2.n + d[1], y2 + d[2],
                                                                 x + d[1], y + d[2])),
                                     !.cx = x2.n + d[1], !.cy = y2 + d[2]]}} : TRUE

\* Parser::q
RECURSIVE q(_, _)
q(st, relative) ==
    LET d == delta(st, relative)
        x1 == try_number(st.pos)
        r == numbers(x1.pos, 3)
        y1 == r.ns[1]
        x == r.ns[2]
        y == r.ns[3]
    IN  IF ~x1.ok THEN [st EXCEPT !.pos = x1.pos]
        ELSE IF ~r.ok THEN Failed(st, r.pos)
        ELSE CHOOSE out \in
            {q(next, relative) :
                next \in {[st EXCEPT !.pos = r.pos,
                                     !.px = x + d[1], !.py = y + d[2],
                                     !.cx = x1.n + d[1], !.cy = y1 + d[2],
                                     !.commands =
                                         Append(@, QuadraticBezierCurveTo(
                                                       x1.n + d[1], y1 + d[2],
                                                       x + d[1], y + d[2]))]}} : TRUE

\* the gate of t written with the families of s
ReflectsQuadratic_CubicGate(last) == last \in {"C", "S"}

\* the gate of Parser::t: if let Some(Cmd::Q | Cmd::T) = self.last_command
ReflectsQuadratic(last) == last \in {"Q", "T"}

\* t that stores the control point it emitted
RECURSIVE t_StoresControl(_, _)
t_StoresControl(st, relative) ==
    LET d == delta(st, relative)
        x == try_number(st.pos)
        y == number(x.pos)
        reflect == ReflectsQuadratic(st.last_command)
        ncx == IF reflect THEN st.px + (st.px - st.cx) ELSE st.px
        ncy == IF reflect THEN st.py + (st.py - st.cy) ELSE st.py
    IN  IF ~x.ok THEN [st EXCEPT !.pos = x.pos]
        ELSE IF ~y.ok THEN Failed(st, y.pos)
        ELSE CHOOSE out \in
            {t_StoresControl(next, relative) :
                next \in {[st EXCEPT !.pos = y.pos,
                                     !.px = x.n + d[1], !.py = y.n + d[2],
                                     !.commands =
                                         Append(@, SmoothQuadraticBezierCurveTo(
                                                       ncx, ncy, x.n + d[1], y.n + d[2])),
                                     !.cx = ncx, !.cy = ncy]}} : TRUE

\* Parser::t
RECURSIVE t(_, _)
t(st, relative) ==
    LET d == delta(st, relative)
        x == try_number(st.pos)
        y == number(x.pos)
        reflect == ReflectsQuadratic(st.last_command)
        ncx == IF reflect THEN st.px + (st.px - st.cx) ELSE st.px
        ncy == IF reflect THEN st.py + (st.py - st.cy) ELSE st.py
    IN  IF ~x.ok THEN [st EXCEPT !.pos = x.pos]
        ELSE IF ~y.ok THEN Failed(st, y.pos)
        ELSE CHOOSE out \in
            {t(next, relative) :
                next \in {[st EXCEPT !.pos = y.pos,
                                     !.px = x.n + d[1], !.py = y.n + d[2],
                                     !.commands =
                                         Append(@, SmoothQuadraticBezierCurveTo(
                                                       ncx, ncy, x.n + d[1], y.n + d[2])),
                                     !.cx = x.n + d[1], !.cy = y.n + d[2]]}} : TRUE

(***************************************************************************)
(* The elliptical arc.  The solver and the flattener compute with sines    *)
(* and cosines of f32; the model keeps what decides the shape of the       *)
(* output (whether the arc is degenerate, how many commands are pushed and *)
(* of which kind) and carries the sampled coordinates as the description   *)
(* of the sample instead of a number.                                      *)
(***************************************************************************)
Abs(x) == IF x < 0 THEN -x ELSE x

\* the solver with && where the source has ||
calculate_ellipse_parameters_BothZero(x0, y0, x, y, rx, ry, phi, large_arc_flag, sweep_flag) ==
    IF Abs(rx) = 0 /\ Abs(ry) = 0
    THEN [some |-> FALSE]
    ELSE [some |-> TRUE, x0 |-> x0, y0 |-> y0, x |-> x, y |-> y,
          rx |-> Abs(rx), ry |-> Abs(ry), phi |-> phi,
          large_arc_flag |-> large_arc_flag, sweep_flag |-> sweep_flag]

\* calculate_ellipse_parameters: None when a radius is zero, else the solved
\* ellipse, named by the arguments that determine it.
calculate_ellipse_parameters(x0, y0, x, y, rx, ry, phi, large_arc_flag, sweep_flag) ==
    IF Abs(rx) = 0 \/ Abs(ry) = 0
    THEN [some |-> FALSE]
    ELSE [some |-> TRUE, x0 |-> x0, y0 |-> y0, x |-> x, y |-> y,
          rx |-> Abs(rx), ry |-> Abs(ry), phi |-> phi,
          large_arc_flag |-> large_arc_flag, sweep_flag |-> sweep_flag]

\* the flattener with the LineTo pushed ahead of the loop
push_eliptical_cmds_LineToFirst(cmds, solved, rx, ry, x_axis_rotation, steps) ==
    LET on == [solved |-> solved, rx |-> rx, ry |-> ry,
               x_axis_rotation |-> x_axis_rotation, steps |-> steps]
        count == IF steps > 0 THEN steps + 1 ELSE 1
    IN  cmds \o [i \in 1..count |->
                    IF i = 1
                    THEN [type |-> "LineTo", arc |-> on, i |-> 0]
                    ELSE [type |-> "SmoothQuadraticBezierCurveTo",
                          arc |-> on, i |-> i - 2]]

\* push_eliptical_cmds: for i in 0..steps, a LineTo before the first segment
\* and one SmoothQuadraticBezierCurveTo per segment.
push_eliptical_cmds(cmds, solved, rx, ry, x_axis_rotation, steps) ==
    LET on == [solved |-> solved, rx |-> rx, ry |-> ry,
               x_axis_rotation |-> x_axis_rotation, steps |-> steps]
        count == IF steps > 0 THEN steps + 1 ELSE 0
    IN  cmds \o [i \in 1..count |->
                    IF i = 1
                    THEN [type |-> "LineTo", arc |-> on, i |-> 0]
                    ELSE [type |-> "SmoothQuadraticBezierCurveTo",
                          arc |-> on, i |-> i - 2]]

\* Parser::a
RECURSIVE a(_, _)
a(st, relative) ==
    LET d == delta(st, relative)
        rx == try_number(st.pos)
        r == numbers(rx.pos, 6)
        ry == r.ns[1]
        x_axis_rotation == r.ns[2]
        large_arc_flag == r.ns[3] # 0
        sweep_flag == r.ns[4] # 0
        x == r.ns[5]
        y == r.ns[6]
        x2 == st.px
        y2 == st.py
        npx == d[1] + x
        npy == d[2] + y
        solved == calculate_ellipse_parameters(x2, y2, npx, npy, rx.n, ry,
                                               x_axis_rotation,
                                               large_arc_flag, sweep_flag)
    IN  IF ~rx.ok THEN [st EXCEPT !.pos = rx.pos]
        ELSE IF ~r.ok THEN Failed(st, r.pos)
        ELSE CHOOSE out \in
            {a(next, relative) :
                next \in {[st EXCEPT !.pos = r.pos, !.px = npx, !.py = npy,
                                     !.commands =
                                         IF solved.some
                                         THEN push_eliptical_cmds(@, solved, rx.n, ry,
                                                                  x_axis_rotation,
                                                                  st.bezier_steps)
                                         ELSE @,
                                     !.cx = npx, !.cy = npy]}} : TRUE

(***************************************************************************)
(* f32 in the geometry of viewbox.rs and path.rs, where numbers are        *)
(* divided.  A value is the fraction n/d in lowest terms with d > 0, or    *)
(* one of the three values with d = 0: 1/0 is +inf, -1/0 is -inf and 0/0   *)
(* is NaN.  Fractions are exact: rounding is not modelled.  Zero has no    *)
(* sign; it stands for +0.0, which every zero divisor of the model is,     *)
(* the sizes and factors asked for being positive.                         *)
(***************************************************************************)
RECURSIVE GCD(_, _)
GCD(i, j) == IF j = 0 THEN i ELSE GCD(j, i % j)

Sign(i) == IF i > 0 THEN 1 ELSE IF i < 0 THEN -1 ELSE 0

\* n/d in lowest terms, d # 0
Frac(n, d) ==
    LET g == GCD(Abs(n), Abs(d))
    IN  [n |-> Sign(d) * (n \div g), d |-> Abs(d) \div g]

\* the f32 of an integer
F(i) == [n |-> i, d |-> 1]

NaN == [n |-> 0, d |-> 0]
Inf(sign) == [n |-> sign, d |-> 0]
IsNaN(u) == u.d = 0 /\ u.n = 0
IsInf(u) == u.d = 0 /\ u.n # 0
IsFinite(u) == u.d # 0

\* u + w
FAdd(u, w) ==
    IF IsNaN(u) \/ IsNaN(w) THEN NaN
    ELSE IF IsInf(u) /\ IsInf(w) THEN (IF u.n = w.n THEN u ELSE NaN)
    ELSE IF IsInf(u) THEN u
    ELSE IF IsInf(w) THEN w
    ELSE Frac(u.n * w.d + w.n * u.d, u.d * w.d)

\* u - w
FSub(u, w) == FAdd(u, [w EXCEPT !.n = -w.n])

\* u * w
FMul(u, w) ==
    IF IsNaN(u) \/ IsNaN(w) THEN NaN
    ELSE IF IsInf(u) \/ IsInf(w)
         THEN (IF u.n = 0 \/ w.n = 0 THEN NaN ELSE Inf(Sign(u.n) * Sign(w.n)))
    ELSE Frac(u.n * w.n, u.d * w.d)

\* u / w
FDiv(u, w) ==
    IF IsNaN(u) \/ IsNaN(w) THEN NaN
    ELSE IF IsInf(u) THEN (IF IsInf(w) THEN NaN
                           ELSE Inf(u.n * (IF w.n < 0 THEN -1 ELSE 1)))
    ELSE IF IsInf(w) THEN F(0)
    ELSE IF w.n = 0 THEN (IF u.n = 0 THEN NaN ELSE Inf(Sign(u.n)))
    ELSE Frac(u.n * w.d, u.d * w.n)

\* u < w, false when one of them is NaN
FLess(u, w) == ~IsNaN(u) /\ ~IsNaN(w) /\ u.n * w.d < w.n * u.d

\* f32::min and f32::max: the other value when one is NaN
FMin(u, w) == IF IsNaN(u) THEN w ELSE IF IsNaN(w) THEN u
              ELSE IF FLess(w, u) THEN w ELSE u
FMax(u, w) == IF IsNaN(u) THEN w ELSE IF IsNaN(w) THEN u
              ELSE IF FLess(u, w) THEN w ELSE u

\* f32::sqrt, on the values whose root is a fraction
IsSquare(i) == \E k \in 0..i : k * k = i
ISqrt(i) == CHOOSE k \in 0..i : k * k = i
HasExactSqrt(u) == u.d = 0 \/ u.n < 0 \/ (IsSquare(u.n) /\ IsSquare(u.d))
FSqrt(u) ==
    IF IsNaN(u) THEN NaN
    ELSE IF IsInf(u) THEN (IF u.n > 0 THEN u ELSE NaN)
    ELSE IF u.n < 0 THEN NaN
    ELSE Frac(ISqrt(u.n), ISqrt(u.d))

(***************************************************************************)
(* Angles.  acos of a fraction is no fraction: an angle is kept as         *)
(* sign * acos(cos) + turns * 2*pi, with sign 1 or -1 and cos in [-1, 1],  *)
(* or it is NaN.  acos(cos) lies in [0, pi] and is 0 only for cos = 1.     *)
(***************************************************************************)
NaNAngle == [nan |-> TRUE, sign |-> 1, cos |-> NaN, turns |-> 0]

\* f32::acos
acos(u) ==
    IF IsNaN(u) \/ IsInf(u) \/ FLess(F(1), u) \/ FLess(u, F(-1))
    THEN NaNAngle
    ELSE [nan |-> FALSE, sign |-> 1, cos |-> u, turns |-> 0]

\* -angle
AngleNeg(an) == IF an.nan THEN an ELSE [an EXCEPT !.sign = -an.sign]

\* angle > 0.0 and angle < 0.0, false for NaN
AnglePositive(an) ==
    /\ ~an.nan
    /\ an.turns > 0 \/ (an.turns = 0 /\ an.sign = 1 /\ an.cos # F(1))
AngleNegative(an) ==
    /\ ~an.nan
    /\ an.turns < 0 \/ (an.turns = 0 /\ an.sign = -1 /\ an.cos # F(1))

\* angle + k * 2.0 * PI
AddTurns(an, k) == IF an.nan THEN an ELSE [an EXCEPT !.turns = @ + k]

\* calculate_angle
calculate_angle(ux, uy, vx, vy) ==
    LET dot == FAdd(FMul(ux, vx), FMul(uy, vy))
        len == FSqrt(FMul(FAdd(FMul(ux, ux), FMul(uy, uy)),
                          FAdd(FMul(vx, vx), FMul(vy, vy))))
        angle == acos(FDiv(dot, len))
    IN  IF FLess(FSub(FMul(ux, vy), FMul(uy, vx)), F(0))
        THEN AngleNeg(angle)
        ELSE angle

\* radii_check of calculate_ellipse_parameters, x1p*x1p / rx_sq +
\* y1p*y1p / ry_sq, for a rotation phi of 0 degrees: cos_phi is 1 and
\* sin_phi is 0, so that x1p = dx2 and y1p = dy2
radii_check(x0, y0, x, y, rx, ry) ==
    LET x1p == FDiv(F(x0 - x), F(2))
        y1p == FDiv(F(y0 - y), F(2))
    IN  FAdd(FDiv(FMul(x1p, x1p), F(Abs(rx) * Abs(rx))),
             FDiv(FMul(y1p, y1p), F(Abs(ry) * Abs(ry))))

\* sq of calculate_ellipse_parameters for a rotation of 0 degrees; rx_sq and
\* ry_sq are the squares taken before the radii are corrected
center_sq(x0, y0, x, y, rx, ry) ==
    LET x1p == FDiv(F(x0 - x), F(2))
        y1p == FDiv(F(y0 - y), F(2))
        x1p_sq == FMul(x1p, x1p)
        y1p_sq == FMul(y1p, y1p)
        rx_sq == F(Abs(rx) * Abs(rx))
        ry_sq == F(Abs(ry) * Abs(ry))
    IN  FDiv(FSub(FSub(FMul(rx_sq, ry_sq), FMul(rx_sq, y1p_sq)),
                  FMul(ry_sq, x1p_sq)),
             FAdd(FMul(rx_sq, y1p_sq), FMul(ry_sq, x1p_sq)))

\* calculate_ellipse_parameters computed, for a rotation phi of 0 degrees
\* (cos_phi = 1, sin_phi = 0) and arguments whose square roots are fractions
solve_ellipse(x0, y0, x, y, rx0, ry0, large_arc_flag, sweep_flag) ==
    LET cos_phi == F(1)
        sin_phi == F(0)
        dx2 == FDiv(F(x0 - x), F(2))
        dy2 == FDiv(F(y0 - y), F(2))
        x1p == FAdd(FMul(cos_phi, dx2), FMul(sin_phi, dy2))
        y1p == FAdd(FMul(FSub(F(0), sin_phi), dx2), FMul(cos_phi, dy2))
        check == radii_check(x0, y0, x, y, rx0, ry0)
        rx == IF FLess(F(1), check) THEN FMul(F(Abs(rx0)), FSqrt(check))
              ELSE F(Abs(rx0))
        ry == IF FLess(F(1), check) THEN FMul(F(Abs(ry0)), FSqrt(check))
              ELSE F(Abs(ry0))
        sign == IF large_arc_flag = sweep_flag THEN F(-1) ELSE F(1)
        sq == center_sq(x0, y0, x, y, rx0, ry0)
        coef == FMul(sign, FSqrt(FMax(sq, F(0))))
        cxp == FMul(coef, FDiv(FMul(rx, y1p), ry))
        cyp == FMul(coef, FSub(F(0), FDiv(FMul(ry, x1p), rx)))
        ccx == FAdd(FSub(FMul(cos_phi, cxp), FMul(sin_phi, cyp)),
                    FDiv(F(x0 + x), F(2)))
        ccy == FAdd(FAdd(FMul(sin_phi, cxp), FMul(cos_phi, cyp)),
                    FDiv(F(y0 + y), F(2)))
        ux == FDiv(FSub(x1p, cxp), rx)
        uy == FDiv(FSub(y1p, cyp), ry)
        vx == FDiv(FSub(FSub(F(0), x1p), cxp), rx)
        vy == FDiv(FSub(FSub(F(0), y1p), cyp), ry)
        start_angle == calculate_angle(F(1), F(0), ux, uy)
        raw == calculate_angle(ux, uy, vx, vy)
        delta_angle ==
            IF ~sweep_flag /\ AnglePositive(raw) THEN AddTurns(raw, -1)
            ELSE IF sweep_flag /\ AngleNegative(raw) THEN AddTurns(raw, 1)
            ELSE raw
    IN  IF Abs(rx0) = 0 \/ Abs(ry0) = 0
        THEN [called |-> TRUE, some |-> FALSE]
        ELSE [called |-> TRUE, some |-> TRUE, cx |-> ccx, cy |-> ccy,
              start_angle |-> start_angle, delta_angle |-> delta_angle,
              raw |-> raw]

(***************************************************************************)
(* viewbox.rs: ViewBox and estimate_dimensions.                            *)
(***************************************************************************)
\* ViewBox::new
ViewBox(min_x, min_y, width, height) ==
    [min_x |-> min_x, min_y |-> min_y, width |-> width, height |-> height]

\* scale_x that leaves the target width out
scale_x_Unit(vb, x, tw) == FDiv(FSub(x, vb.min_x), vb.width)

\* ViewBox::scale_x: (x - self.min_x) * w / self.width
scale_x(vb, x, tw) == FDiv(FMul(FSub(x, vb.min_x), tw), vb.width)

\* ViewBox::scale_y: (y - self.min_y) * h / self.height
scale_y(vb, y, th) == FDiv(FMul(FSub(y, vb.min_y), th), vb.height)

\* ViewBox::scale_cmd
scale_cmd(vb, cmd, tw, th) ==
    CASE cmd.type = "MoveTo" ->
           MoveTo(scale_x(vb, cmd.x, tw), scale_y(vb, cmd.y, th))
      [] cmd.type = "LineTo" ->
           LineTo(scale_x(vb, cmd.x, tw), scale_y(vb, cmd.y, th))
      [] cmd.type = "CurveTo" ->
           CurveTo(scale_x(vb, cmd.x1, tw), scale_y(vb, cmd.y1, th),
                   scale_x(vb, cmd.x2, tw), scale_y(vb, cmd.y2, th),
                   scale_x(vb, cmd.x, tw), scale_y(vb, cmd.y, th))
      [] cmd.type = "ClosePath" -> ClosePath
      [] cmd.type = "SmoothCurveTo" ->
           SmoothCurveTo(scale_x(vb, cmd.cx, tw), scale_y(vb, cmd.cy, th),
                         scale_x(vb, cmd.x2, tw), scale_y(vb, cmd.y2, th),
                         scale_x(vb, cmd.x, tw), scale_y(vb, cmd.y, th))
      [] cmd.type = "QuadraticBezierCurveTo" ->
           QuadraticBezierCurveTo(
               scale_x(vb, cmd.x1, tw), scale_y(vb, cmd.y1, th),
               scale_x(vb, cmd.x, tw), scale_y(vb, cmd.y, th))
      [] cmd.type = "SmoothQuadraticBezierCurveTo" ->
           SmoothQuadraticBezierCurveTo(
               scale_x(vb, cmd.cx, tw), scale_y(vb, cmd.cy, th),
               scale_x(vb, cmd.x, tw), scale_y(vb, cmd.y, th))

\* the points the arm of estimate_dimensions for cmd folds in, in its order
Points(cmd) ==
    CASE cmd.type = "MoveTo" -> <<(<<cmd.x, cmd.y>>)>>
      [] cmd.type = "LineTo" -> <<(<<cmd.x, cmd.y>>)>>
      [] cmd.type = "CurveTo" ->
           <<(<<cmd.x1, cmd.y1>>), (<<cmd.x2, cmd.y2>>), (<<cmd.x, cmd.y>>)>>
      [] cmd.type = "ClosePath" -> <<>>
      [] cmd.type = "SmoothCurveTo" ->
           <<(<<cmd.cx, cmd.cy>>), (<<cmd.x2, cmd.y2>>), (<<cmd.x, cmd.y>>)>>
      [] cmd.type = "SmoothQuadraticBezierCurveTo" ->
           <<(<<cmd.cx, cmd.cy>>), (<<cmd.x, cmd.y>>)>>
      [] cmd.type = "QuadraticBezierCurveTo" ->
           <<(<<cmd.x1, cmd.y1>>), (<<cmd.x, cmd.y>>)>>

\* min_x = min_x.min(x); min_y = min_y.min(y); max_x = ...; max_y = ...
Grow(e, p) ==
    [min_x |-> FMin(e.min_x, p[1]), min_y |-> FMin(e.min_y, p[2]),
     max_x |-> FMax(e.max_x, p[1]), max_y |-> FMax(e.max_y, p[2])]

RECURSIVE GrowAll(_, _)
GrowAll(e, pts) ==
    IF pts = <<>> THEN e ELSE GrowAll(Grow(e, Head(pts)), Tail(pts))

\* the loop of estimate_dimensions: for cmd in path, from the extent e
RECURSIVE Extent(_, _)
Extent(e, path) ==
    IF path = <<>> THEN e
    ELSE Extent(GrowAll(e, Points(Head(path))), Tail(path))

\* estimate_dimensions whose bounds start at the first point of the path
estimate_dimensions_FirstPointSeed(path) ==
    LET pts == {i \in 1..Len(path) : Points(path[i]) # <<>>}
        first == Points(path[CHOOSE i \in pts : \A j \in pts : i <= j])[1]
        seed == IF pts = {} THEN <<F(0), F(0)>> ELSE first
        e == Extent([min_x |-> seed[1], min_y |-> seed[2],
                     max_x |-> seed[1], max_y |-> seed[2]], path)
    IN  <<FSub(e.max_x, e.min_x), FSub(e.max_y, e.min_y)>>

\* estimate_dimensions
estimate_dimensions(path) ==
    LET e == Extent([min_x |-> F(0), min_y |-> F(0),
                     max_x |-> F(0), max_y |-> F(0)], path)
    IN  <<FSub(e.max_x, e.min_x), FSub(e.max_y, e.min_y)>>

(***************************************************************************)
(* path.rs: Path.  calculate_bb and Command::translate are called there    *)
(* and defined in no file of the source; they are taken from the           *)
(* specification: the bounding-box span of the commands, and the offset    *)
(* added to every coordinate.                                              *)
(***************************************************************************)
\* viewbox::calculate_bb
calculate_bb(cmds) == estimate_dimensions(cmds)

\* Command::translate
translate_cmd(cmd, x, y) ==
    CASE cmd.type = "MoveTo" -> MoveTo(FAdd(cmd.x, x), FAdd(cmd.y, y))
      [] cmd.type = "LineTo" -> LineTo(FAdd(cmd.x, x), FAdd(cmd.y, y))
      [] cmd.type = "CurveTo" ->
           CurveTo(FAdd(cmd.x1, x), FAdd(cmd.y1, y), FAdd(cmd.x2, x),
                   FAdd(cmd.y2, y), FAdd(cmd.x, x), FAdd(cmd.y, y))
      [] cmd.type = "ClosePath" -> ClosePath
      [] cmd.type = "SmoothCurveTo" ->
           SmoothCurveTo(FAdd(cmd.cx, x), FAdd(cmd.cy, y), FAdd(cmd.x2, x),
                         FAdd(cmd.y2, y), FAdd(cmd.x, x), FAdd(cmd.y, y))
      [] cmd.type = "QuadraticBezierCurveTo" ->
           QuadraticBezierCurveTo(FAdd(cmd.x1, x), FAdd(cmd.y1, y),
                                  FAdd(cmd.x, x), FAdd(cmd.y, y))
      [] cmd.type = "SmoothQuadraticBezierCurveTo" ->
           SmoothQuadraticBezierCurveTo(FAdd(cmd.cx, x), FAdd(cmd.cy, y),
                                        FAdd(cmd.x, x), FAdd(cmd.y, y))

\* Path::new
Path(cmds) == [commands |-> cmds, bb |-> calculate_bb(cmds)]

\* Path::translate
translate(self, x, y) ==
    [self EXCEPT !.commands =
        [i \in DOMAIN @ |-> translate_cmd(@[i], x, y)]]

\* for cmd in self.commands.iter_mut(): vb.scale_cmd(cmd, self.bb.0, self.bb.1)
ScaleAll(self, vb) ==
    [self EXCEPT !.commands =
        [i \in DOMAIN @ |-> scale_cmd(vb, @[i], self.bb[1], self.bb[2])]]

\* resize that measures the commands again before it scales them
resize_FreshSpan(self, width, height) ==
    LET span == calculate_bb(self.commands)
        scalex == FDiv(width, span[1])
        scaley == FDiv(height, span[2])
        vb == ViewBox(F(0), F(0), FDiv(span[1], scalex), FDiv(span[2], scaley))
    IN  [commands |->
             [i \in DOMAIN self.commands |->
                 scale_cmd(vb, self.commands[i], span[1], span[2])],
         bb |-> span]

\* Path::resize
resize(self, width, height) ==
    LET scalex == FDiv(width, self.bb[1])
        scaley == FDiv(height, self.bb[2])
        vb == ViewBox(F(0), F(0), FDiv(self.bb[1], scalex),
                      FDiv(self.bb[2], scaley))
    IN  ScaleAll(self, vb)

\* Path::scale
scale(self, factor) ==
    LET vb == ViewBox(F(0), F(0), FDiv(self.bb[1], factor),
                      FDiv(self.bb[2], factor))
    IN  ScaleAll(self, vb)

\* Path::fit
fit(self, width, height) ==
    LET scalex == FDiv(width, self.bb[1])
        scaley == FDiv(height, self.bb[2])
        factor == FMin(scalex, scaley)
        vb == ViewBox(F(0), F(0), FDiv(self.bb[1], factor),
                      FDiv(self.bb[2], factor))
    IN  ScaleAll(self, vb)

\* Path::cover
cover(self, width, height) ==
    LET scalex == FDiv(width, self.bb[1])
        scaley == FDiv(height, self.bb[2])
        factor == FMax(scalex, scaley)
        vb == ViewBox(F(0), F(0), FDiv(self.bb[1], factor),
                      FDiv(self.bb[2], factor))
    IN  ScaleAll(self, vb)

(***************************************************************************)
(* The inputs.  A shape is a sequence of letters and number places; an     *)
(* input is a shape with its number places filled from a cycle of values.  *)
(***************************************************************************)
\* numbers read per argument group of a family
Arity(f) ==
    CASE f = "M" -> 2 [] f = "L" -> 2 [] f = "H" -> 1 [] f = "V" -> 1
      [] f = "C" -> 6 [] f = "S" -> 4 [] f = "Q" -> 4 [] f = "T" -> 2
      [] f = "A" -> 7 [] f = "Z" -> 0

\* a letter Cmd::map does not know
BadLetter == "X"

Letters == UpperLetters \cup LowerLetters

Places(k) == [i \in 1..k |-> "#"]

\* longest run of numbers tried after a letter: MaxGroups groups and one
\* number more (for M, after its own pair)
RunMax(ch) ==
    IF ch = BadLetter \/ Upper(ch) = "Z" THEN 1
    ELSE IF Upper(ch) = "M" THEN 2 * MaxGroups + 3
    ELSE Arity(Upper(ch)) * MaxGroups + 1

\* a letter and the numbers after it, or nothing
Segs ==
    {<<>>} \cup
    UNION {{<<ch>> \o Places(k) : k \in 0..RunMax(ch)} :
           ch \in Letters \cup {BadLetter}}

\* a letter alone or with one argument group, or nothing
Heads ==
    {<<>>, <<BadLetter>>} \cup
    {<<ch>> \o Places(Arity(Upper(ch)) * g) : ch \in Letters, g \in 0..1}

\* one complete command to start from, before a bare letter
Prefixes ==
    {<<"M">> \o Places(4), <<"Q">> \o Places(4), <<"c">> \o Places(6)}

Shapes ==
    {hd \o sg : hd \in Heads, sg \in Segs}
    \cup {sg \o <<ch>> : sg \in Segs, ch \in Letters \cup {BadLetter}}
    \cup {p \o <<ch>> \o hd :
             p \in Prefixes, ch \in Letters \cup {BadLetter}, hd \in Heads}
    \cup {<<"#">> \o sg : sg \in Segs}

\* the value at place p of the cycle -1, 0, 3, 8, ... started at off
NumAt(p, off) == LET r == (p + off) % NumMod IN r * r - 1

Materialize(shape, off) ==
    [p \in 1..Len(shape) |->
        IF shape[p] = "#" THEN NumberLit(NumAt(p, off)) ELSE Letter(shape[p])]

\* "M 0 0 l 10 0 0 10" and "M 0 0 L 10 0 10 10"
RelativeExample ==
    <<Letter("M"), NumberLit(0), NumberLit(0), Letter("l"), NumberLit(10),
      NumberLit(0), NumberLit(0), NumberLit(10)>>
AbsoluteExample ==
    <<Letter("M"), NumberLit(0), NumberLit(0), Letter("L"), NumberLit(10),
      NumberLit(0), NumberLit(10), NumberLit(10)>>

Inputs ==
    {Materialize(sh, off) : sh \in Shapes, off \in 0..(NumMod - 1)}
    \cup {RelativeExample, AbsoluteExample}

HasArc(in) == \E p \in 1..Len(in) : Lex(in[p]).kind = "Command" /\ Lex(in[p]).cmd = "A"

\* Parser::new sets 16
DefaultSteps == 16

\* Parser::bezier_steps takes any i32: the default, a small count, none and
\* a negative count
StepCounts == {DefaultSteps, SmallSteps, 0, -1}

(***************************************************************************)
(* The state machine.                                                      *)
(***************************************************************************)
\* the solver is not called on its own while the parser runs
NoArc ==
    /\ arc_in = <<>>
    /\ arc_out = [called |-> FALSE]

\* no Path is built while the parser runs
NoDims == <<>>
NoPath ==
    /\ path_commands = <<>>
    /\ bb = <<F(0), F(0)>>
    /\ dims = NoDims
    /\ calls = <<>>

\* Parser::new(path), then bezier_steps(n) or not.  bezier_steps is read by
\* the arc handler alone, so another value is tried on inputs with an arc.
Init ==
    /\ input \in Inputs
    /\ pos = 0
    /\ px = 0 /\ py = 0
    /\ cx = 0 /\ cy = 0
    /\ sx = 0 /\ sy = 0
    /\ bezier_steps \in (IF HasArc(input) THEN StepCounts ELSE {DefaultSteps})
    /\ last_command = NoCmd
    /\ commands = <<>>
    /\ result = "running"
    /\ NoPath
    /\ NoArc

\* the parser as the handlers see it, the command letter consumed
Self ==
    [pos |-> pos + 1, px |-> px, py |-> py, cx |-> cx, cy |-> cy,
     sx |-> sx, sy |-> sy, bezier_steps |-> bezier_steps,
     last_command |-> last_command, commands |-> commands, failed |-> FALSE]

\* the token self.lexer.next() yields in the dispatch loop
Token == Lex(input[pos + 1])

\* the loop of parse is at a command letter of family f
AtCommand(f) ==
    /\ result = "running"
    /\ pos < Len(input)
    /\ Token.kind = "Command"
    /\ Token.cmd = f

\* a dispatch that records the letter only when its handler pushed
Handled_RecordsWhenPushed(st, f) ==
    \E ret \in {st} :
        /\ pos' = ret.pos
        /\ px' = ret.px /\ py' = ret.py
        /\ cx' = ret.cx /\ cy' = ret.cy
        /\ sx' = ret.sx /\ sy' = ret.sy
        /\ commands' = ret.commands
        /\ last_command' = IF ret.failed \/ ret.commands = commands
                           THEN last_command ELSE f
        /\ result' = IF ret.failed THEN "ErrNumber" ELSE "running"
        /\ UNCHANGED <<input, bezier_steps, path_vars, arc_vars>>

\* the handler returned st (the handler is run once, ret is what it
\* returned): `?` returns its error, else last_command is set
Handled(st, f) ==
    \E ret \in {st} :
        /\ pos' = ret.pos
        /\ px' = ret.px /\ py' = ret.py
        /\ cx' = ret.cx /\ cy' = ret.cy
        /\ sx' = ret.sx /\ sy' = ret.sy
        /\ commands' = ret.commands
        /\ last_command' = IF ret.failed THEN last_command ELSE f
        /\ result' = IF ret.failed THEN "ErrNumber" ELSE "running"
        /\ UNCHANGED <<input, bezier_steps, path_vars, arc_vars>>

DispatchM == AtCommand("M") /\ Handled(m(Self, Token.relative), "M")
DispatchL == AtCommand("L") /\ Handled(l(Self, Token.relative), "L")
DispatchH == AtCommand("H") /\ Handled(h(Self, Token.relative), "H")
DispatchV == AtCommand("V") /\ Handled(v(Self, Token.relative), "V")
DispatchC == AtCommand("C") /\ Handled(c(Self, Token.relative), "C")
DispatchS == AtCommand("S") /\ Handled(s(Self, Token.relative), "S")
DispatchQ == AtCommand("Q") /\ Handled(q(Self, Token.relative), "Q")
DispatchT == AtCommand("T") /\ Handled(t(Self, Token.relative), "T")
DispatchA == AtCommand("A") /\ Handled(a(Self, Token.relative), "A")

\* Z that pushes ClosePath and leaves the current point where it is
z_KeepsPoint(st) == [st EXCEPT !.commands = Append(@, ClosePath)]

\* Cmd::Z
z(st) == [st EXCEPT !.px = st.sx, !.py = st.sy,
                    !.commands = Append(@, ClosePath)]

DispatchZ == AtCommand("Z") /\ Handled(z(Self), "Z")

\* a dispatch loop that skips a stray number
NumberToken_Skips ==
    /\ result = "running"
    /\ pos < Len(input)
    /\ Token.kind = "Number"
    /\ pos' = pos + 1
    /\ UNCHANGED <<input, px, py, cx, cy, sx, sy, bezier_steps, last_command,
                   commands, result, path_vars, arc_vars>>

\* Token::Number in the dispatch loop
NumberToken ==
    /\ result = "running"
    /\ pos < Len(input)
    /\ Token.kind = "Number"
    /\ pos' = pos + 1
    /\ result' = "ErrCommand"
    /\ UNCHANGED <<input, px, py, cx, cy, sx, sy, bezier_steps, last_command,
                   commands, path_vars, arc_vars>>

\* a while let that ends on None alone and has no arm for Some(Err(()))
LoopEnds_OnlyAtEnd ==
    /\ result = "running"
    /\ pos = Len(input)
    /\ pos' = pos
    /\ result' = "Ok"
    /\ UNCHANGED <<input, px, py, cx, cy, sx, sy, bezier_steps, last_command,
                   commands, path_vars, arc_vars>>

\* the while let ends: lexer.next() is None or Some(Err(())); Ok(self.commands)
LoopEnds ==
    /\ result = "running"
    /\ IF pos = Len(input) THEN TRUE ELSE Token.kind = "Error"
    /\ pos' = IF pos < Len(input) THEN pos + 1 ELSE pos
    /\ result' = "Ok"
    /\ UNCHANGED <<input, px, py, cx, cy, sx, sy, bezier_steps, last_command,
                   commands, path_vars, arc_vars>>

Next ==
    \/ DispatchM \/ DispatchL \/ DispatchH \/ DispatchV \/ DispatchC
    \/ DispatchS \/ DispatchQ \/ DispatchT \/ DispatchA \/ DispatchZ
    \/ NumberToken \/ LoopEnds

Spec == Init /\ [][Next]_vars

\* what may follow the first letter and its numbers
Tails == {<<>>, <<"l", "#", "#">>, <<BadLetter>>}

\* a number alone, or an uppercase or unknown letter with every count of
\* numbers tried, and a tail
LiveInputs ==
    {Materialize(<<"#">>, 0)} \cup
    UNION {{Materialize(<<ch>> \o Places(k) \o tl, 0) :
               k \in 0..RunMax(ch), tl \in Tails} :
           ch \in UpperLetters \cup {BadLetter}}

LiveInit ==
    /\ input \in LiveInputs
    /\ pos = 0
    /\ px = 0 /\ py = 0
    /\ cx = 0 /\ cy = 0
    /\ sx = 0 /\ sy = 0
    /\ bezier_steps \in (IF HasArc(input) THEN StepCounts ELSE {DefaultSteps})
    /\ last_command = NoCmd
    /\ commands = <<>>
    /\ result = "running"
    /\ NoPath
    /\ NoArc

\* parse runs to its return: a call that can take a step takes it
LiveSpec == LiveInit /\ [][Next]_vars /\ WF_vars(Next)

(***************************************************************************)
(* The state machine of a Path: built from a command sequence, then        *)
(* measured and transformed by its caller.                                 *)
(***************************************************************************)
\* calls made on one Path after Path::new
MaxCalls == 2
\* commands of a path handed to Path::new
MaxPathLen == 3
\* added to every coordinate of a path, or twice subtracted
PathShift == 2
\* a width asked for, a factor asked for, an offset asked for
MaxSize == 3
MaxFactor == 2
MaxOffset == 2

\* the variants of Command
CommandTypes ==
    <<"MoveTo", "LineTo", "CurveTo", "ClosePath", "SmoothCurveTo",
      "QuadraticBezierCurveTo", "SmoothQuadraticBezierCurveTo">>

\* a command of type ty with the coordinates co[1], co[2], ...
CommandOf(ty, co) ==
    CASE ty = "MoveTo" -> MoveTo(co[1], co[2])
      [] ty = "LineTo" -> LineTo(co[1], co[2])
      [] ty = "CurveTo" -> CurveTo(co[1], co[2], co[3], co[4], co[5], co[6])
      [] ty = "ClosePath" -> ClosePath
      [] ty = "SmoothCurveTo" ->
           SmoothCurveTo(co[1], co[2], co[3], co[4], co[5], co[6])
      [] ty = "QuadraticBezierCurveTo" ->
           QuadraticBezierCurveTo(co[1], co[2], co[3], co[4])
      [] ty = "SmoothQuadraticBezierCurveTo" ->
           SmoothQuadraticBezierCurveTo(co[1], co[2], co[3], co[4])

\* n commands of successive types from the first-th on, their coordinates
\* taken from the cycle of values started at off and moved by shift
PathOf(first, n, off, shift) ==
    [k \in 1..n |->
        CommandOf(CommandTypes[((first + k - 2) % Len(CommandTypes)) + 1],
                  [j \in 1..6 |-> F(NumAt(6 * k + j, off) + shift)])]

PathInputs ==
    {PathOf(first, n, off, shift) :
        first \in 1..Len(CommandTypes), n \in 0..MaxPathLen,
        off \in 0..(NumMod - 1), shift \in {0, PathShift, -2 * PathShift}}

\* Parser::new(""), not run
ParserIdle ==
    /\ input = <<>>
    /\ pos = 0
    /\ px = 0 /\ py = 0
    /\ cx = 0 /\ cy = 0
    /\ sx = 0 /\ sy = 0
    /\ bezier_steps = DefaultSteps
    /\ last_command = NoCmd
    /\ commands = <<>>
    /\ result = "running"

\* Path::new(commands), the parser idle
PathInit ==
    /\ ParserIdle
    /\ \E cmds \in PathInputs :
           /\ path_commands = Path(cmds).commands
           /\ bb = Path(cmds).bb
           /\ calls = <<[op |-> "new", args |-> <<cmds>>]>>
    /\ dims = NoDims
    /\ NoArc

\* the Path: self
ThePath == [commands |-> path_commands, bb |-> bb]

MayCall == calls # <<>> /\ Len(calls) <= MaxCalls

\* a method taking &mut self returned, leaving the path self2
Called(self2, op, args) ==
    /\ path_commands' = self2.commands
    /\ bb' = self2.bb
    /\ calls' = Append(calls, [op |-> op, args |-> args])
    /\ UNCHANGED <<dims, parser_vars, arc_vars>>

\* sizes and offsets a caller asks for: the span of the path itself, or
\* other numbers
Targets == {bb, <<F(MaxSize), F(1)>>}
Offsets == {<<F(-1), F(MaxOffset)>>, <<F(MaxOffset), F(0)>>}

Translate ==
    /\ MayCall
    /\ \E d \in Offsets : Called(translate(ThePath, d[1], d[2]), "translate", d)

Resize ==
    /\ MayCall
    /\ \E wh \in Targets : Called(resize(ThePath, wh[1], wh[2]), "resize", wh)

Scale ==
    /\ MayCall
    /\ Called(scale(ThePath, F(MaxFactor)), "scale", <<F(MaxFactor)>>)

Fit ==
    /\ MayCall
    /\ \E wh \in Targets : Called(fit(ThePath, wh[1], wh[2]), "fit", wh)

Cover ==
    /\ MayCall
    /\ \E wh \in Targets : Called(cover(ThePath, wh[1], wh[2]), "cover", wh)

\* estimate_dimensions(path.commands())
EstimateDimensions ==
    /\ MayCall
    /\ dims' = estimate_dimensions(path_commands)
    /\ calls' = Append(calls, [op |-> "estimate_dimensions", args |-> <<>>])
    /\ UNCHANGED <<path_commands, bb, parser_vars, arc_vars>>

PathNext ==
    \/ Translate \/ Resize \/ Scale \/ Fit \/ Cover \/ EstimateDimensions

PathSpec == PathInit /\ [][PathNext]_vars

(***************************************************************************)
(* The state machine of one call of calculate_ellipse_parameters, as       *)
(* Parser::a makes it: the current point, the endpoint, the radii, the     *)
(* rotation and the flags of an arc group.                                 *)
(***************************************************************************)
\* endpoints lie at most ArcGrid from the start point on each axis
ArcGrid == 4
\* the larger radius tried
MaxRadius == 5

\* the arguments of the call: rotation 0, and square roots that are
\* fractions
ArcInputs ==
    {in \in [x0 : {0, 1}, y0 : {0, -2},
             x : (-ArcGrid)..(ArcGrid + 1), y : (-ArcGrid - 2)..ArcGrid,
             rx : {0, 1, -1, MaxRadius}, ry : {0, 1, -1, MaxRadius},
             large_arc_flag : BOOLEAN, sweep_flag : BOOLEAN] :
        /\ <<in.x0, in.y0>> \in {<<0, 0>>, <<1, -2>>}
        /\ Abs(in.x - in.x0) <= ArcGrid
        /\ Abs(in.y - in.y0) <= ArcGrid
        /\ (in.rx # 0 /\ in.ry # 0) =>
               LET check == radii_check(in.x0, in.y0, in.x, in.y, in.rx, in.ry)
                   sq == center_sq(in.x0, in.y0, in.x, in.y, in.rx, in.ry)
               IN  /\ FLess(F(1), check) => HasExactSqrt(check)
                   /\ HasExactSqrt(sq)}

ArcInit ==
    /\ ParserIdle
    /\ NoPath
    /\ arc_in \in ArcInputs
    /\ arc_out = [called |-> FALSE]

\* calculate_ellipse_parameters(x2, y2, self.px, self.py, rx, ry, 0.0,
\* large_arc_flag, sweep_flag)
Solve ==
    /\ ~arc_out.called
    /\ arc_out' = solve_ellipse(arc_in.x0, arc_in.y0, arc_in.x, arc_in.y,
                                arc_in.rx, arc_in.ry,
                                arc_in.large_arc_flag, arc_in.sweep_flag)
    /\ UNCHANGED <<arc_in, parser_vars, path_vars>>

ArcNext == Solve

ArcSpec == ArcInit /\ [][ArcNext]_vars

(***************************************************************************)
(* Reading the input and the output in the properties.                     *)
(***************************************************************************)
IsNum(i) == i \in 1..Len(input) /\ Lex(input[i]).kind = "Number"
IsCmd(i) == i \in 1..Len(input) /\ Lex(input[i]).kind = "Command"
Val(i) == input[i].n

\* how many number tokens follow token i without a break
NumRun(i) ==
    IF \A j \in (i + 1)..Len(input) : IsNum(j) THEN Len(input) - i
    ELSE (CHOOSE j \in (i + 1)..Len(input) :
              ~IsNum(j) /\ \A j2 \in (i + 1)..(j - 1) : IsNum(j2)) - i - 1

\* the dispatch loop is at a command letter: its index, family and case
AtLetter == result = "running" /\ pos < Len(input) /\ Token.kind = "Command"
Lt == pos + 1
Fam == Token.cmd
Rel == Token.relative

\* commands pushed by the step
Pushed == Len(commands') - Len(commands)
New(g) == commands'[Len(commands) + g]

\* coordinates are numbers in every command but the samples of an arc
IsArcCmd(cmd) == "arc" \in DOMAIN cmd
HasPoint(cmd) == cmd.type # "ClosePath" /\ ~IsArcCmd(cmd)

\* sum of the numbers at i, i + 2, ..., i + 2 * (n - 1)
RECURSIVE SumEvery2(_, _)
SumEvery2(i, n) == IF n = 0 THEN 0 ELSE Val(i) + SumEvery2(i + 2, n - 1)

(***************************************************************************)
(* C1.  An input M x y followed by k coordinate pairs is parsed to one     *)
(* MoveTo followed by k LineTo, in input order; the pairs after the first  *)
(* are absolute after M and each relative to the point before it after m.  *)
(***************************************************************************)
MoveToForm ==
    /\ Len(input) >= 3
    /\ Len(input) % 2 = 1
    /\ input[1] \in {Letter("M"), Letter("m")}
    /\ \A i \in 2..Len(input) : IsNum(i)

MoveToFormOutput ==
    [j \in 1..((Len(input) - 1) \div 2) |->
        IF j = 1 THEN MoveTo(Val(2), Val(3))
        ELSE IF input[1] = Letter("M") THEN LineTo(Val(2 * j), Val(2 * j + 1))
        ELSE LineTo(SumEvery2(2, j), SumEvery2(3, j))]

\* C1: once the M of such an input is handled, the commands are the MoveTo
\* and the k LineTo, and parse does not fail.
C1_MoveToThenLineTos ==
    MoveToForm =>
        \/ pos = 0 /\ commands = <<>> /\ result = "running"
        \/ /\ pos = Len(input)
           /\ commands = MoveToFormOutput
           /\ result \in {"running", "Ok"}

C1_Witness ==
    /\ MoveToForm
    /\ input[1] = Letter("m")
    /\ result = "Ok"
    /\ Len(commands) = 3
    /\ commands[3] # LineTo(Val(6), Val(7))

(***************************************************************************)
(* C2.  Emitted coordinates are absolute: each argument of a group is      *)
(* emitted plus the current point as it was before that group after a      *)
(* lowercase letter, and unchanged after an uppercase letter; in a run the *)
(* current point before a group is the endpoint of the group before it.    *)
(* (The commands of an arc are samples, not arguments: A is left out.)     *)
(***************************************************************************)
\* the k-th argument of the g-th group after the letter being dispatched
Arg(g, k) == Val(Lt + (g - 1) * Arity(Fam) + k)

\* the current point before the g-th group of the run
Before(g) == IF g = 1 THEN <<px, py>> ELSE <<New(g - 1).x, New(g - 1).y>>

Off(g) == IF Rel THEN Before(g) ELSE <<0, 0>>

Resolved(g) ==
    LET o == Off(g)
        b == Before(g)
        X(k) == Arg(g, k) + o[1]
        Y(k) == Arg(g, k) + o[2]
    IN  CASE Fam = "M" ->
               New(g) = IF g = 1 THEN MoveTo(X(1), Y(2)) ELSE LineTo(X(1), Y(2))
          [] Fam = "L" -> New(g) = LineTo(X(1), Y(2))
          [] Fam = "H" -> New(g) = LineTo(X(1), b[2])
          [] Fam = "V" -> New(g) = LineTo(b[1], Y(1))
          [] Fam = "C" -> New(g) = CurveTo(X(1), Y(2), X(3), Y(4), X(5), Y(6))
          [] Fam = "S" ->
               /\ New(g).type = "SmoothCurveTo"
               /\ <<New(g).x2, New(g).y2, New(g).x, New(g).y>>
                      = <<X(1), Y(2), X(3), Y(4)>>
          [] Fam = "Q" ->
               New(g) = QuadraticBezierCurveTo(X(1), Y(2), X(3), Y(4))
          [] Fam = "T" ->
               /\ New(g).type = "SmoothQuadraticBezierCurveTo"
               /\ <<New(g).x, New(g).y>> = <<X(1), Y(2)>>

\* C2: every command a handler pushes is its group's arguments plus the
\* offset of that group.
C2_CoordinatesResolved ==
    [][AtLetter /\ Fam \notin {"A", "Z"} =>
           \A g \in 1..Pushed : Resolved(g)]_vars

\* a run of two groups after c whose second group is offset by the
\* endpoint of the first
C2_Witness ==
    \E i \in 1..Len(input) :
        /\ input[i] = Letter("c")
        /\ pos = i + 12
        /\ result = "running"
        /\ last_command = "C"
        /\ Len(commands) >= 2
        /\ LET n == Len(commands)
               e == commands[n - 1]
           IN  /\ e.type = "CurveTo"
               /\ e.x # 0 /\ e.y # 0 /\ e.x # e.y
               /\ commands[n] =
                      CurveTo(Val(i + 7) + e.x, Val(i + 8) + e.y,
                              Val(i + 9) + e.x, Val(i + 10) + e.y,
                              Val(i + 11) + e.x, Val(i + 12) + e.y)

(***************************************************************************)
(* C3.  An S letter that directly follows a C or S command emits its       *)
(* SmoothCurveTo with the incoming control point (2*px - cx, 2*py - cy),   *)
(* the reflection through the current point of the stored control point,  *)
(* which is the second control point of the cubic command before it; after *)
(* any other family, or none, the control point is the current point.      *)
(***************************************************************************)
LastCmd == commands[Len(commands)]

\* the stored control point before the g-th group of a run of S
CubicControlBefore(g) ==
    IF g = 1 THEN <<cx, cy>> ELSE <<New(g - 1).x2, New(g - 1).y2>>

SmoothControl(g) == <<New(g).cx, New(g).cy>>

\* C3: the control point of every SmoothCurveTo pushed under an S letter is
\* the reflection when last_command is C or S, else the current point; and
\* when the C or S before it read a group, the stored control point is the
\* second control point of the command that group pushed.
C3_SmoothCubicReflection ==
    [][AtLetter /\ Fam = "S" =>
          /\ \A g \in 1..Pushed :
                IF last_command \in {"C", "S"}
                THEN SmoothControl(g) =
                         <<2 * Before(g)[1] - CubicControlBefore(g)[1],
                           2 * Before(g)[2] - CubicControlBefore(g)[2]>>
                ELSE SmoothControl(g) = Before(g)
          /\ (last_command \in {"C", "S"} /\ IsNum(pos)) =>
                /\ LastCmd.type \in {"CurveTo", "SmoothCurveTo"}
                /\ <<cx, cy>> = <<LastCmd.x2, LastCmd.y2>>
                /\ <<px, py>> = <<LastCmd.x, LastCmd.y>>]_vars

\* an S group right after a C group, reflected to a point that is not the
\* current point
C3_Witness ==
    \E i \in 2..Len(input) :
        /\ input[i] \in {Letter("S"), Letter("s")}
        /\ IsNum(i - 1)
        /\ pos = i + 4
        /\ last_command = "S"
        /\ Len(commands) >= 2
        /\ LET n == Len(commands)
               e == commands[n - 1]
           IN  /\ e.type = "CurveTo"
               /\ commands[n].type = "SmoothCurveTo"
               /\ commands[n].cx = 2 * e.x - e.x2
               /\ commands[n].cy = 2 * e.y - e.y2
               /\ commands[n].cx # e.x
               /\ commands[n].cy # e.y

(***************************************************************************)
(* C4.  A T letter that directly follows a Q or T command emits its        *)
(* SmoothQuadraticBezierCurveTo with the stored control point reflected    *)
(* through the current point; after any other family, or none, the         *)
(* control point is the current point.                                     *)
(***************************************************************************)
\* the stored control point before the g-th group of a run of T: t stores
\* the endpoint after each group
QuadControlBefore(g) ==
    IF g = 1 THEN <<cx, cy>> ELSE <<New(g - 1).x, New(g - 1).y>>

\* C4: the control point of every command pushed under a T letter is the
\* reflection of the stored control point when last_command is Q or T,
\* else the current point; after a Q that read a group the stored control
\* point is the control point of that group.
C4_SmoothQuadraticReflection ==
    [][AtLetter /\ Fam = "T" =>
          /\ \A g \in 1..Pushed :
                IF last_command \in {"Q", "T"}
                THEN SmoothControl(g) =
                         <<2 * Before(g)[1] - QuadControlBefore(g)[1],
                           2 * Before(g)[2] - QuadControlBefore(g)[2]>>
                ELSE SmoothControl(g) = Before(g)
          /\ (last_command = "Q" /\ IsNum(pos)) =>
                /\ LastCmd.type = "QuadraticBezierCurveTo"
                /\ <<cx, cy>> = <<LastCmd.x1, LastCmd.y1>>
                /\ <<px, py>> = <<LastCmd.x, LastCmd.y>>]_vars

\* a T group right after a Q group, reflected to a point that is not the
\* current point
C4_Witness ==
    \E i \in 2..Len(input) :
        /\ input[i] \in {Letter("T"), Letter("t")}
        /\ IsNum(i - 1)
        /\ pos = i + 2
        /\ last_command = "T"
        /\ Len(commands) >= 2
        /\ LET n == Len(commands)
               e == commands[n - 1]
           IN  /\ e.type = "QuadraticBezierCurveTo"
               /\ commands[n].type = "SmoothQuadraticBezierCurveTo"
               /\ commands[n].cx = 2 * e.x - e.x1
               /\ commands[n].cy = 2 * e.y - e.y1
               /\ commands[n].cx # e.x
               /\ commands[n].cy # e.y

(***************************************************************************)
(* C5.  Z and z alike push ClosePath and set the current point to the      *)
(* point of the most recent MoveTo, (0,0) if there is none; a relative     *)
(* command right after Z is resolved from that point.                      *)
(***************************************************************************)
\* the point of the last MoveTo of cmds
StartOf(cmds) ==
    LET moves == {i \in 1..Len(cmds) : cmds[i].type = "MoveTo"}
        last == CHOOSE i \in moves : \A j \in moves : j <= i
    IN  IF moves = {} THEN <<0, 0>> ELSE <<cmds[last].x, cmds[last].y>>

\* the endpoint the first group after the letter asks for, from point b
EndpointFrom(b) ==
    CASE Fam = "H" -> <<Arg(1, 1) + b[1], b[2]>>
      [] Fam = "V" -> <<b[1], Arg(1, 1) + b[2]>>
      [] OTHER -> <<Arg(1, Arity(Fam) - 1) + b[1], Arg(1, Arity(Fam)) + b[2]>>

\* C5: the step of Z, and the step of a lowercase letter right after Z.
C5_ClosePathReturnsToStart ==
    [][/\ (AtLetter /\ Fam = "Z") =>
            /\ commands' = Append(commands, ClosePath)
            /\ <<px', py'>> = StartOf(commands)
            /\ result' = "running"
       /\ (AtLetter /\ last_command = "Z" /\ Rel /\ Pushed >= 1
              /\ Fam \notin {"A", "Z"}) =>
            <<New(1).x, New(1).y>> = EndpointFrom(StartOf(commands))]_vars

\* M x y x y, Z, l x y: the LineTo after Z starts from the MoveTo point,
\* which is not the point reached before Z
C5_Witness ==
    \E i \in 1..Len(input) :
        /\ IsCmd(i) /\ Lex(input[i]).cmd = "Z"
        /\ i + 3 <= Len(input)
        /\ input[i + 1] = Letter("l")
        /\ pos = i + 3
        /\ last_command = "L"
        /\ Len(commands) >= 4
        /\ LET n == Len(commands)
               mv == commands[n - 3]
               ln == commands[n - 2]
           IN  /\ mv.type = "MoveTo"
               /\ ln.type = "LineTo"
               /\ ln.x # mv.x /\ ln.y # mv.y
               /\ commands[n - 1] = ClosePath
               /\ commands[n] = LineTo(Val(i + 2) + mv.x, Val(i + 3) + mv.y)

(***************************************************************************)
(* C6.  A group that has started (its first number was read, or the        *)
(* letter is M) and lacks a number makes parse fail with Expected::Number, *)
(* whether the input ends there or another token comes instead.            *)
(***************************************************************************)
\* the numbers after the letter being dispatched do not fill whole groups
GroupMissing ==
    CASE Fam = "M" -> NumRun(Lt) = 0 \/ NumRun(Lt) % 2 = 1
      [] Fam = "Z" -> FALSE
      [] OTHER -> NumRun(Lt) % Arity(Fam) # 0

\* C6: such a letter ends parse with Expected::Number, the token met
\* instead of the number consumed with it.
C6_MissingNumberFails ==
    [][(AtLetter /\ GroupMissing) =>
           /\ result' = "ErrNumber"
           /\ pos' = IF Lt + NumRun(Lt) < Len(input)
                      THEN Lt + NumRun(Lt) + 1
                      ELSE Len(input)]_vars

\* a C run that fails in its second group on a command letter
C6_Witness ==
    /\ result = "ErrNumber"
    /\ pos >= 2
    /\ IsCmd(pos)
    /\ IsNum(pos - 1)
    /\ commands # <<>>
    /\ LastCmd.type = "CurveTo"

(***************************************************************************)
(* C7.  A number where the dispatch loop expects a command letter makes    *)
(* parse fail with Expected::Command; this happens at the start of the     *)
(* input or right after Z.                                                 *)
(***************************************************************************)
C7_StrayNumberFails ==
    [][(result = "running" /\ pos < Len(input) /\ Token.kind = "Number") =>
           /\ result' = "ErrCommand"
           /\ pos = 0 \/ (IsCmd(pos) /\ Lex(input[pos]).cmd = "Z")]_vars

\* a number right after a Z that closed a subpath
C7_Witness ==
    /\ result = "ErrCommand"
    /\ pos >= 2
    /\ IsCmd(pos - 1)
    /\ Lex(input[pos - 1]).cmd = "Z"
    /\ commands # <<>>
    /\ LastCmd = ClosePath

(***************************************************************************)
(* C8.  Parsing is all-or-nothing: parse returns commands only if every    *)
(* token was recognised and consumed; an unknown letter yields a failure.  *)
(***************************************************************************)
\* C8, as claimed: Ok means the whole input was consumed and held no token
\* the lexer rejects.
C8_AllOrNothing ==
    result = "Ok" =>
        /\ pos = Len(input)
        /\ \A i \in 1..Len(input) : Lex(input[i]).kind # "Error"

(***************************************************************************)
(* C9.  A repeatable family reads groups while a number comes next; the    *)
(* first token that is no number ends the run with success and is not      *)
(* consumed: a letter there is dispatched next, the end of input is Ok.    *)
(***************************************************************************)
Repeatable == {"L", "H", "V", "C", "S", "Q", "T", "A"}

\* C9: the step of a repeatable letter followed by whole groups, and the
\* step at the end of the input.
C9_RunEndsAtNonNumber ==
    [][/\ (AtLetter /\ Fam \in Repeatable /\ ~GroupMissing) =>
            /\ result' = "running"
            /\ last_command' = Fam
            /\ pos' = Lt + NumRun(Lt)
            /\ Fam # "A" => Pushed = NumRun(Lt) \div Arity(Fam)
            /\ (pos' < Len(input) /\ IsCmd(pos' + 1)) => AtLetter'
       /\ (result = "running" /\ pos = Len(input)) =>
            /\ result' = "Ok"
            /\ commands' = commands]_vars

\* a run of two Q groups ended by a command letter, which is next
C9_Witness ==
    \E i \in 1..Len(input) :
        /\ IsCmd(i) /\ Lex(input[i]).cmd = "Q"
        /\ NumRun(i) = 8
        /\ pos = i + 8
        /\ IsCmd(pos + 1)
        /\ result = "running"
        /\ last_command = "Q"
        /\ Len(commands) >= 2
        /\ LastCmd.type = "QuadraticBezierCurveTo"

(***************************************************************************)
(* C10.  An arc group with rx = 0 or ry = 0 pushes no command, is no       *)
(* error, and moves the current point to its endpoint.                     *)
(***************************************************************************)
Degenerate(g) == Arg(g, 1) = 0 \/ Arg(g, 2) = 0

RECURSIVE SumArg(_, _)
SumArg(g, k) == IF g = 0 THEN 0 ELSE Arg(g, k) + SumArg(g - 1, k)

\* the endpoint of the last of n arc groups
ArcEnd(n) ==
    IF Rel THEN <<px + SumArg(n, 6), py + SumArg(n, 7)>>
    ELSE <<Arg(n, 6), Arg(n, 7)>>

\* C10: in a run of whole arc groups every pushed command belongs to an arc
\* with both radii non-zero, nothing is pushed if all groups are
\* degenerate, parse goes on, and the current point is the last endpoint.
C10_DegenerateArcSilent ==
    [][(AtLetter /\ Fam = "A" /\ ~GroupMissing /\ NumRun(Lt) > 0) =>
           LET n == NumRun(Lt) \div 7
           IN  /\ result' = "running"
               /\ \A k \in 1..Pushed :
                      /\ IsArcCmd(New(k))
                      /\ New(k).arc.rx # 0
                      /\ New(k).arc.ry # 0
               /\ (\A g \in 1..n : Degenerate(g)) => commands' = commands
               /\ (\E g \in 1..n : ~Degenerate(g)) =>
                      (bezier_steps > 0 => Pushed > 0)
               /\ <<px', py'>> = ArcEnd(n)]_vars

\* A with a zero radius, then l x y: the only command is the LineTo, drawn
\* from the endpoint of the arc
C10_Witness ==
    /\ Len(input) = 11
    /\ input[1] = Letter("A")
    /\ Val(2) = 0 \/ Val(3) = 0
    /\ input[9] = Letter("l")
    /\ pos = 11
    /\ result = "running"
    /\ <<Val(7), Val(8)>> # <<0, 0>>
    /\ commands = <<LineTo(Val(7) + Val(10), Val(8) + Val(11))>>

(***************************************************************************)
(* C11.  Every arc group with both radii non-zero appends one LineTo and   *)
(* then one SmoothQuadraticBezierCurveTo per step, 1 + steps commands, and *)
(* nothing else.                                                           *)
(***************************************************************************)
\* how many of the groups 1..g of the run are not degenerate
ArcRank(g) == Cardinality({g2 \in 1..g : ~Degenerate(g2)})

\* the commands of a run of arc groups are, for each group that is not
\* degenerate and in the order of the groups, per commands sampled on the
\* arc of that group: a LineTo and then the segments 0, 1, ...
ArcBlocks(per) ==
    LET n == NumRun(Lt) \div 7
    IN  /\ Pushed = per * ArcRank(n)
        /\ \A g \in 1..n : ~Degenerate(g) =>
               \A k \in 1..per :
                   LET cmd == New((ArcRank(g) - 1) * per + k)
                   IN  /\ IsArcCmd(cmd)
                       /\ cmd.type = IF k = 1 THEN "LineTo"
                                     ELSE "SmoothQuadraticBezierCurveTo"
                       /\ cmd.i = IF k = 1 THEN 0 ELSE k - 2
                       /\ <<cmd.arc.rx, cmd.arc.ry>> = <<Arg(g, 1), Arg(g, 2)>>
                       /\ <<cmd.arc.solved.x, cmd.arc.solved.y>> = ArcEnd(g)

\* C11, as claimed: 1 + steps commands per group whatever the step count.
C11_OnePlusSteps ==
    [][(AtLetter /\ Fam = "A" /\ ~GroupMissing) =>
           ArcBlocks(1 + bezier_steps)]_vars

\* C11, amended: 1 + steps commands per group when the step count is at
\* least 1, and no command at all when it is 0 or negative.
C11_OnePlusStepsWhenPositive ==
    [][(AtLetter /\ Fam = "A" /\ ~GroupMissing) =>
           ArcBlocks(IF bezier_steps >= 1 THEN 1 + bezier_steps ELSE 0)]_vars

\* one arc with non-zero radii flattened in SmallSteps steps
C11_Witness ==
    /\ Len(input) = 8
    /\ input[1] = Letter("A")
    /\ Val(2) # 0 /\ Val(3) # 0
    /\ bezier_steps = SmallSteps
    /\ pos = 8
    /\ last_command = "A"
    /\ Len(commands) = 1 + SmallSteps
    /\ commands[1].type = "LineTo"
    /\ \A k \in 2..Len(commands) :
           commands[k].type = "SmoothQuadraticBezierCurveTo"

(***************************************************************************)
(* C12.  "M 0 0 l 10 0 0 10" and "M 0 0 L 10 0 10 10" parse to sequences   *)
(* with the same final point that differ in an intermediate LineTo.        *)
(***************************************************************************)
\* C12, as claimed: the absolute input parses to the points it writes, and
\* the relative input ends at the same point (10,10) through an intermediate
\* LineTo that is not the one of the absolute input.
C12_IntermediateDiffers ==
    result = "Ok" =>
        /\ input = AbsoluteExample =>
               commands = <<MoveTo(0, 0), LineTo(10, 0), LineTo(10, 10)>>
        /\ input = RelativeExample =>
               /\ Len(commands) = 3
               /\ commands[3] = LineTo(10, 10)
               /\ commands[2].type = "LineTo"
               /\ commands[2] # LineTo(10, 0)

\* C12, amended: both inputs are parsed without failure to the same
\* sequence MoveTo(0,0), LineTo(10,0), LineTo(10,10): the same final point
\* and the same intermediate LineTo.
C12_SameSequence ==
    input \in {RelativeExample, AbsoluteExample} =>
        /\ result \in {"running", "Ok"}
        /\ result = "Ok" =>
               /\ commands = <<MoveTo(0, 0), LineTo(10, 0), LineTo(10, 10)>>
               /\ <<px, py>> = <<10, 10>>

\* the relative input parsed to the end
C12_Witness ==
    /\ input = RelativeExample
    /\ result = "Ok"
    /\ pos = Len(input)
    /\ commands[2] = LineTo(10, 0)
    /\ commands[3] = LineTo(10, 10)

(***************************************************************************)
(* Reading a Path in the properties.                                       *)
(***************************************************************************)
\* the step is the call op on the Path
Calling(op) ==
    /\ Len(calls') = Len(calls) + 1
    /\ calls'[Len(calls')].op = op

\* the arguments of the call the step makes
CallArgs == calls'[Len(calls')].args

\* the commands Path::new was given
Built == calls[1].args[1]

\* the x and the y coordinates of the commands cmds, control points
\* included, that are numbers
XNames == {"x", "x1", "x2", "cx"}
YNames == {"y", "y1", "y2", "cy"}
CoordsOf(cmds, names) ==
    {u \in UNION {{cmds[i][f] : f \in names \cap DOMAIN cmds[i]} :
                     i \in 1..Len(cmds)} : ~IsNaN(u)}

MaxF(S) == CHOOSE u \in S : \A w \in S : ~FLess(u, w)
MinF(S) == CHOOSE u \in S : \A w \in S : ~FLess(w, u)

\* max - min over the origin and the coordinates S
SpanOf(S) == FSub(MaxF(S \cup {F(0)}), MinF(S \cup {F(0)}))

(***************************************************************************)
(* C13.  estimate_dimensions returns (max_x - min_x, max_y - min_y), min   *)
(* and max taken over the origin and every coordinate of every command,    *)
(* control points included, ClosePath adding nothing; so no component is   *)
(* negative, and the span of a path wholly on one side of the origin       *)
(* reaches from the origin to its farthest coordinate.                     *)
(***************************************************************************)
C13_SpanIncludesOrigin ==
    [][Calling("estimate_dimensions") =>
           LET X == CoordsOf(path_commands, XNames)
               Y == CoordsOf(path_commands, YNames)
           IN  /\ dims' = <<SpanOf(X), SpanOf(Y)>>
               /\ ~IsNaN(dims'[1]) /\ ~FLess(dims'[1], F(0))
               /\ ~IsNaN(dims'[2]) /\ ~FLess(dims'[2], F(0))
               /\ (X # {} /\ \A u \in X : FLess(F(0), u)) =>
                      dims'[1] = MaxF(X)
               /\ (X # {} /\ \A u \in X : FLess(u, F(0))) =>
                      dims'[1] = FSub(F(0), MinF(X))
               /\ (Y # {} /\ \A u \in Y : FLess(F(0), u)) =>
                      dims'[2] = MaxF(Y)
               /\ (Y # {} /\ \A u \in Y : FLess(u, F(0))) =>
                      dims'[2] = FSub(F(0), MinF(Y))]_vars

\* a measured path with a ClosePath, all of its x coordinates right of the
\* origin and the farthest of them a control point: the width is that
\* coordinate, more than the path is wide
C13_Witness ==
    /\ Len(calls) = 2
    /\ calls[2].op = "estimate_dimensions"
    /\ \E i \in 1..Len(path_commands) : path_commands[i] = ClosePath
    /\ LET X == CoordsOf(path_commands, XNames)
           E == CoordsOf(path_commands, {"x"})
       IN  /\ X # {}
           /\ \A u \in X : FLess(F(0), u)
           /\ \A u \in E : FLess(u, MaxF(X))
           /\ dims[1] = MaxF(X)
           /\ FLess(FSub(MaxF(X), MinF(X)), dims[1])

PathMethods == {"translate", "resize", "scale", "fit", "cover"}
ShapeChanging == {"resize", "scale", "fit", "cover"}

\* every x coordinate of cmds times fx and every y coordinate times fy
ScaledBy(cmds, fx, fy) ==
    [i \in 1..Len(cmds) |->
        [f \in DOMAIN cmds[i] |->
            IF f \in XNames THEN FMul(cmds[i][f], fx)
            ELSE IF f \in YNames THEN FMul(cmds[i][f], fy)
            ELSE cmds[i][f]]]

\* the factors of the call op(args) on a path of span sp
FactorsOf(op, args, sp) ==
    LET fx == FDiv(args[1], sp[1])
        fy == FDiv(args[2], sp[2])
    IN  CASE op = "resize" -> <<fx, fy>>
          [] op = "scale" -> <<args[1], args[1]>>
          [] op = "fit" -> <<FMin(fx, fy), FMin(fx, fy)>>
          [] op = "cover" -> <<FMax(fx, fy), FMax(fx, fy)>>

\* C15: no method changes bb, bb is the span of the commands Path::new was
\* given, and a shape-changing call on a path whose cached span has no
\* zero component multiplies the coordinates by the factors of that span.
C15_SpanStaysAsBuilt ==
    [][\A op \in PathMethods : Calling(op) =>
           /\ bb' = bb
           /\ bb = calculate_bb(Built)
           /\ UNCHANGED dims
           /\ (op \in ShapeChanging /\ bb[1].n # 0 /\ bb[2].n # 0) =>
                  LET fa == FactorsOf(op, CallArgs, calculate_bb(Built))
                  IN  path_commands' = ScaledBy(path_commands, fa[1], fa[2])]_vars

\* scale and then resize: the span kept is no longer the span of the
\* commands, the resize took its factors from it, and the path is not of
\* the size asked for
C15_Witness ==
    /\ Len(calls) = 3
    /\ calls[2].op = "scale"
    /\ calls[3].op = "resize"
    /\ bb = calculate_bb(Built)
    /\ bb[1].n # 0 /\ bb[2].n # 0
    /\ LET once == ScaledBy(Built, calls[2].args[1], calls[2].args[1])
           fa == FactorsOf("resize", calls[3].args, bb)
       IN  /\ calculate_bb(once) # bb
           /\ path_commands = ScaledBy(once, fa[1], fa[2])
           /\ calculate_bb(path_commands) # calls[3].args
           /\ calculate_bb(path_commands) # bb

(***************************************************************************)
(* C16.  In a run of groups under one S letter every group after the       *)
(* first takes for its incoming control point the reflection, through the  *)
(* current point, of the second control point of the group before it,      *)
(* whatever command came before the S letter.                              *)
(***************************************************************************)
\* C16, as claimed
C16_RunOfSReflects ==
    [][(AtLetter /\ Fam = "S") =>
           \A g \in 2..Pushed :
               SmoothControl(g) =
                   <<2 * Before(g)[1] - New(g - 1).x2,
                     2 * Before(g)[2] - New(g - 1).y2>>]_vars

(***************************************************************************)
(* C17.  When the radii of an arc are too small to span the chord, both    *)
(* are scaled up by the same factor, sqrt(radii_check), and the segments   *)
(* are sampled with these corrected, non-negative radii, not with the      *)
(* radii written in the input.                                             *)
(***************************************************************************)
\* the radii check of the g-th group of the run, its rotation being 0
RadiiCheck(g) ==
    LET b == IF g = 1 THEN <<px, py>> ELSE ArcEnd(g - 1)
        e == ArcEnd(g)
    IN  radii_check(b[1], b[2], e[1], e[2], Arg(g, 1), Arg(g, 2))

\* C17, as claimed, for the groups whose rotation is 0: the radii r the
\* commands of such a group are sampled with are not negative and their
\* squares are the written radii squared times the radii check.
C17_SampledWithCorrectedRadii ==
    [][(AtLetter /\ Fam = "A" /\ ~GroupMissing /\ bezier_steps >= 1) =>
           \A g \in 1..(NumRun(Lt) \div 7) :
               (/\ ~Degenerate(g)
                /\ Arg(g, 3) = 0
                /\ FLess(F(1), RadiiCheck(g))) =>
                   LET cmd == New((ArcRank(g) - 1) * (1 + bezier_steps) + 1)
                   IN  /\ cmd.arc.rx >= 0
                       /\ cmd.arc.ry >= 0
                       /\ F(cmd.arc.rx * cmd.arc.rx) =
                              FMul(F(Arg(g, 1) * Arg(g, 1)), RadiiCheck(g))
                       /\ F(cmd.arc.ry * cmd.arc.ry) =
                              FMul(F(Arg(g, 2) * Arg(g, 2)), RadiiCheck(g))]_vars

(***************************************************************************)
(* C18.  After each group of T the stored control point is the endpoint of *)
(* the group, the new current point, not the control point emitted; so a T *)
(* group that directly follows a T group is emitted with the current point *)
(* for its control point.                                                  *)
(***************************************************************************)
C18_SmoothQuadraticStoresEndpoint ==
    [][(AtLetter /\ Fam = "T") =>
          /\ Pushed >= 1 =>
                /\ <<cx', cy'>> = <<New(Pushed).x, New(Pushed).y>>
                /\ <<cx', cy'>> = <<px', py'>>
          /\ \A g \in 2..Pushed : SmoothControl(g) = Before(g)
          /\ (last_command = "T" /\ IsNum(pos) /\ Pushed >= 1) =>
                /\ LastCmd.type = "SmoothQuadraticBezierCurveTo"
                /\ SmoothControl(1) = <<px, py>>]_vars

\* a Q group, then T with two groups: the first group of T emitted a
\* reflected control point that is not its endpoint, the second group the
\* current point
C18_Witness ==
    \E i \in 2..Len(input) :
        /\ input[i] \in {Letter("T"), Letter("t")}
        /\ IsNum(i - 1)
        /\ pos = i + 4
        /\ last_command = "T"
        /\ Len(commands) >= 3
        /\ LET n == Len(commands)
               e == commands[n - 1]
           IN  /\ commands[n - 2].type = "QuadraticBezierCurveTo"
               /\ e.type = "SmoothQuadraticBezierCurveTo"
               /\ <<e.cx, e.cy>> # <<e.x, e.y>>
               /\ <<2 * e.x - e.cx, 2 * e.y - e.cy>> # <<e.x, e.y>>
               /\ commands[n].type = "SmoothQuadraticBezierCurveTo"
               /\ <<commands[n].cx, commands[n].cy>> = <<e.x, e.y>>
               /\ <<cx, cy>> = <<px, py>>

(***************************************************************************)
(* C19.  Each argument of H pushes one LineTo with the current y and the   *)
(* argument (plus the current x after h) for x; each argument of V one     *)
(* LineTo with the current x and the argument (plus the current y after v) *)
(* for y.  H never changes py and V never changes px.                      *)
(***************************************************************************)
\* the sum of the first g arguments of a family of one argument
RECURSIVE SumArg1(_)
SumArg1(g) == IF g = 0 THEN 0 ELSE Arg(g, 1) + SumArg1(g - 1)

C19_HorizontalAndVertical ==
    [][/\ (AtLetter /\ Fam = "H") =>
            /\ Pushed = NumRun(Lt)
            /\ py' = py
            /\ \A g \in 1..Pushed :
                   New(g) = LineTo(IF Rel THEN px + SumArg1(g) ELSE Arg(g, 1),
                                   py)
            /\ Pushed >= 1 => px' = New(Pushed).x
       /\ (AtLetter /\ Fam = "V") =>
            /\ Pushed = NumRun(Lt)
            /\ px' = px
            /\ \A g \in 1..Pushed :
                   New(g) = LineTo(px,
                                   IF Rel THEN py + SumArg1(g) ELSE Arg(g, 1))
            /\ Pushed >= 1 => py' = New(Pushed).y]_vars

\* M x y, then h with two arguments: two LineTo at the y of the MoveTo,
\* which is not 0, the second x counted from the first
C19_Witness ==
    /\ Len(input) = 6
    /\ input[1] = Letter("M")
    /\ input[4] = Letter("h")
    /\ pos = 6
    /\ last_command = "H"
    /\ Val(3) # 0
    /\ Val(5) # 0
    /\ commands = <<MoveTo(Val(2), Val(3)),
                    LineTo(Val(2) + Val(5), Val(3)),
                    LineTo(Val(2) + Val(5) + Val(6), Val(3))>>
    /\ py = Val(3)

(***************************************************************************)
(* C20.  The delta angle the solver returns has the sign the sweep flag    *)
(* asks for, <= 0 when the flag is false and >= 0 when it is true: the raw *)
(* signed angle lies in [-pi, pi] and a full turn is subtracted from it or *)
(* added to it exactly when its sign disagrees with the flag.              *)
(***************************************************************************)
\* an angle of [-pi, pi]: a number, with no turn added
IsRawAngle(an) == ~an.nan /\ an.turns = 0

AngleLeq0(an) == ~an.nan /\ ~AnglePositive(an)
AngleGeq0(an) == ~an.nan /\ ~AngleNegative(an)

\* C20, as claimed
C20_DeltaSignFollowsSweep ==
    (arc_out.called /\ arc_out.some) =>
        LET raw == arc_out.raw
            delta_angle == arc_out.delta_angle
        IN  /\ IsRawAngle(raw)
            /\ arc_in.sweep_flag => AngleGeq0(delta_angle)
            /\ ~arc_in.sweep_flag => AngleLeq0(delta_angle)
            /\ delta_angle =
                   IF ~arc_in.sweep_flag /\ AnglePositive(raw)
                   THEN AddTurns(raw, -1)
                   ELSE IF arc_in.sweep_flag /\ AngleNegative(raw)
                        THEN AddTurns(raw, 1)
                        ELSE raw

\* the same for the arcs whose endpoints are two points
C20_UnlessEndpointsCoincide ==
    <<arc_in.x0, arc_in.y0>> # <<arc_in.x, arc_in.y>> =>
        C20_DeltaSignFollowsSweep

(***************************************************************************)
(* C21.  parse terminates on every finite token sequence.  Every iteration *)
(* of the dispatch loop consumes at least one token, a handler consumes    *)
(* its letter and the numbers of its groups once each (and the token a     *)
(* failing number() meets), never more tokens than there are, and parse    *)
(* ends in exactly one of Ok, Expected::Command and Expected::Number,      *)
(* after which nothing changes.                                            *)
(***************************************************************************)
Outcomes == {"Ok", "ErrCommand", "ErrNumber"}

\* the numbers after the letter being dispatched make complete groups
CompleteGroups ==
    LET n == NumRun(Lt)
    IN  CASE Fam = "Z" -> TRUE
          [] Fam = "M" -> n >= 2 /\ n % 2 = 0
          [] OTHER -> n % Arity(Fam) = 0

\* tokens the handler of the letter being dispatched consumes, the letter
\* included: all the numbers of the run and, when the last group is cut
\* short, the token number() meets in place of a number, if there is one
HandlerConsumes ==
    LET n == NumRun(Lt)
    IN  IF Fam = "Z" THEN 1
        ELSE IF CompleteGroups THEN 1 + n
        ELSE IF Lt + n < Len(input) THEN 2 + n ELSE 1 + n

\* one step of parse
C21_Step ==
    /\ result = "running"
    /\ pos' <= Len(input)
    /\ IF pos = Len(input)
       THEN pos' = pos /\ result' = "Ok"
       ELSE /\ pos' > pos
            /\ CASE Token.kind = "Number" ->
                       pos' = pos + 1 /\ result' = "ErrCommand"
                 [] Token.kind = "Error" ->
                       pos' = pos + 1 /\ result' = "Ok"
                 [] Token.kind = "Command" ->
                       /\ pos' = pos + HandlerConsumes
                       /\ result' = IF CompleteGroups THEN "running"
                                    ELSE "ErrNumber"

\* C21
C21_ParseTerminates ==
    /\ [][C21_Step]_vars
    /\ <>(result \in Outcomes)

C21_Witness ==
    /\ Len(input) = 5
    /\ IsCmd(1)
    /\ Lex(input[1]).cmd = "L"
    /\ NumRun(1) = 4
    /\ pos = 5
    /\ Len(commands) = 2
    /\ result = "Ok"

(***************************************************************************)
(* C22.  The subpath start (sx,sy) is changed by the explicit pair of an   *)
(* M or m alone: it is the point of the MoveTo that pair pushes, whatever  *)
(* pairs follow it, and every other letter leaves it as it is, so that it  *)
(* is always the point of the last MoveTo pushed ((0,0) before the first), *)
(* and Z moves the current point there.                                    *)
(***************************************************************************)
\* the point of the last MoveTo of cmds, (0,0) when there is none
LastMoveTo(cmds) ==
    LET at == {i \in 1..Len(cmds) : cmds[i].type = "MoveTo"}
        last == CHOOSE i \in at : \A j \in at : j <= i
    IN  IF at = {} THEN <<0, 0>> ELSE <<cmds[last].x, cmds[last].y>>

\* C22
C22_StartSetByMoveToAlone ==
    [][/\ <<sx', sy'>> = LastMoveTo(commands')
       /\ <<sx', sy'>> # <<sx, sy>> => AtLetter /\ Fam = "M"
       /\ (AtLetter /\ Fam = "M" /\ Pushed >= 1) =>
              /\ New(1) = MoveTo(Arg(1, 1) + Off(1)[1], Arg(1, 2) + Off(1)[2])
              /\ <<sx', sy'>> = <<New(1).x, New(1).y>>
              /\ \A g \in 2..Pushed : New(g).type = "LineTo"
       /\ (AtLetter /\ Fam = "Z") =>
              /\ <<px', py'>> = <<sx, sy>>
              /\ <<px', py'>> = LastMoveTo(commands)]_vars

\* M with two pairs, then Z: the current point is back at the MoveTo, not
\* at the LineTo
C22_Witness ==
    /\ Len(commands) = 3
    /\ commands[1].type = "MoveTo"
    /\ commands[2].type = "LineTo"
    /\ commands[3] = ClosePath
    /\ <<px, py>> = <<commands[1].x, commands[1].y>>
    /\ <<sx, sy>> = <<px, py>>
    /\ <<px, py>> # <<commands[2].x, commands[2].y>>

(***************************************************************************)
(* C23.  A letter of L, H, V, C, S, Q, T, A with no number after it is     *)
(* accepted: its step pushes no command and leaves the current point, the  *)
(* control point and the subpath start as they are, parse goes on, and the *)
(* letter is the recorded previous command: the first group of an S or T   *)
(* right after it is reflected or not by that letter.                      *)
(***************************************************************************)
\* the dispatch loop is at a repeatable letter with no number after it
AtBareLetter == AtLetter /\ Fam \in Repeatable /\ NumRun(Lt) = 0

\* the token before the letter being dispatched is a repeatable letter
AfterBareLetter ==
    /\ AtLetter
    /\ pos >= 1
    /\ IsCmd(pos)
    /\ Lex(input[pos]).cmd \in Repeatable

\* the letter before gates the reflection of the letter being dispatched
GatedBy(prev) ==
    \/ Fam = "S" /\ prev \in {"C", "S"}
    \/ Fam = "T" /\ prev \in {"Q", "T"}

\* C23
C23_BareLetterIsRecorded ==
    [][/\ AtBareLetter =>
              /\ commands' = commands
              /\ UNCHANGED <<px, py, cx, cy, sx, sy>>
              /\ pos' = pos + 1
              /\ result' = "running"
              /\ last_command' = Fam
       /\ (AfterBareLetter /\ Fam \in {"S", "T"} /\ Pushed >= 1) =>
              /\ last_command = Lex(input[pos]).cmd
              /\ SmoothControl(1) =
                     IF GatedBy(Lex(input[pos]).cmd)
                     THEN <<2 * px - cx, 2 * py - cy>>
                     ELSE <<px, py>>]_vars

\* Q with a group, a bare C, then S with a group: the S is reflected
\* through the control point the Q left
C23_Witness ==
    /\ Len(input) = 11
    /\ pos = 11
    /\ IsCmd(1) /\ Lex(input[1]).cmd = "Q"
    /\ IsCmd(6) /\ Lex(input[6]).cmd = "C"
    /\ IsCmd(7) /\ Lex(input[7]).cmd = "S"
    /\ Len(commands) = 2
    /\ commands[2].type = "SmoothCurveTo"
    /\ <<commands[2].cx, commands[2].cy>> # <<commands[1].x, commands[1].y>>
    /\ <<commands[2].cx, commands[2].cy>>
           = <<2 * commands[1].x - commands[1].x1,
               2 * commands[1].y - commands[1].y1>>

(***************************************************************************)
(* C24.  For inputs without arc commands, after every step that pushes     *)
(* commands the current point (px,py) is the endpoint (x,y) of the last    *)
(* command pushed, or the subpath start when that command is ClosePath;    *)
(* inside a run, the current point a group is resolved against is the      *)
(* endpoint of the group before it.  A step that pushes nothing leaves     *)
(* the current point, so this holds in every state of an arc-free parse.   *)
(***************************************************************************)
\* the current point is where the last command of cmds ends
CurrentAtLast(cmds, x, y, startx, starty) ==
    cmds # <<>> =>
        LET last == cmds[Len(cmds)]
        IN  IF last.type = "ClosePath"
            THEN <<x, y>> = <<startx, starty>>
            ELSE <<x, y>> = <<last.x, last.y>>

\* C24
C24_CurrentPointIsLastEndpoint ==
    [][~HasArc(input) =>
           /\ CurrentAtLast(commands, px, py, sx, sy)
           /\ CurrentAtLast(commands', px', py', sx', sy')
           /\ Pushed = 0 => UNCHANGED <<px, py>>
           /\ (AtLetter /\ Fam # "Z") =>
                  \A g \in 2..Pushed : Resolved(g)]_vars

\* a relative c with two groups and one number more: the parse has failed
\* and the current point is the endpoint of the second CurveTo
C24_Witness ==
    /\ ~HasArc(input)
    /\ result = "ErrNumber"
    /\ Len(commands) = 2
    /\ commands[1].type = "CurveTo"
    /\ commands[2].type = "CurveTo"
    /\ <<px, py>> = <<commands[2].x, commands[2].y>>
    /\ <<px, py>> # <<commands[1].x, commands[1].y>>
    /\ input[1] = Letter("c")

====
